---- MODULE Spec2Model ----
(***************************************************************************)
(* A model of cmd/cgo's gcc.go: the identifier classifier (guessKinds),    *)
(* the type translator (typeConv), the struct layout (typeConv.Struct)     *)
(* and the pointer-check call rewriter (rewriteCalls).                     *)
(***************************************************************************)
EXTENDS Integers, Sequences, FiniteSets, TLC

VARIABLES
    pc,                  \* position of Translate in its pipeline
    Name,                \* f.Name: Go name -> Name record
    names,               \* guessKinds: the names handed to gcc, in order
    needType,            \* guessKinds: the needs-type list
    sniff,               \* guessKinds: one mask per entry of names
    completed,           \* guessKinds: saw the error at completed:1
    sawUnmatchedErrors,  \* guessKinds: the last error line matched no probe
    reported,            \* the error_ calls made so far (nerrors is their number)
    fatal,               \* the fatalf message that ended the run, "" if none
    conv,                \* the typeConv and the package-level maps it writes
    dw,                  \* the foreign (DWARF) type nodes, by identity
    godefs,              \* the -godefs flag
    Ref,                 \* f.Ref
    Calls,               \* f.Calls
    needsUnsafe,         \* what rewriteCalls returned
    last,                \* the last call made on the typeConv or the rewriter
    steps,               \* the number of calls made so far
    gcc                  \* the object gcc wrote, and gccDebug's reading of it

vars == <<pc, Name, names, needType, sniff, completed, sawUnmatchedErrors,
          reported, fatal, conv, dw, godefs, Ref, Calls, needsUnsafe, last,
          steps, gcc>>

\* what the classifier leaves alone
others == <<conv, dw, godefs, Ref, Calls, needsUnsafe, last, steps, gcc>>

Nil == "nil"

(***************************************************************************)
(* Small helpers on sequences and bit masks.                               *)
(***************************************************************************)
Range(s) == {s[i] : i \in DOMAIN s}

RECURSIVE Pow2(_)
Pow2(n) == IF n = 0 THEN 1 ELSE 2 * Pow2(n - 1)

\* whether the single-bit value b is set in mask m
HasBit(m, b) == (m \div b) % 2 = 1
\* m | b for a single-bit b
BitOr(m, b) == IF HasBit(m, b) THEN m ELSE m + b
\* m &^ b for a single-bit b
BitAndNot(m, b) == IF HasBit(m, b) THEN m - b ELSE m

(***************************************************************************)
(* guessKinds: the probe bits (const block of guessKinds).                 *)
(***************************************************************************)
notType == 1
notIntConst == 2
notNumConst == 4
notStrLiteral == 8
notDeclared == 16
notSignedIntConst == 32

\* the bit a diagnostic's file tag stands for, 0 for any other file name
TagBit(file) ==
    CASE file = "not-declared" -> notDeclared
      [] file = "not-type" -> notType
      [] file = "not-int-const" -> notIntConst
      [] file = "not-num-const" -> notNumConst
      [] file = "not-str-lit" -> notStrLiteral
      [] file = "not-signed-int-const" -> notSignedIntConst
      [] OTHER -> 0

ProbeTags == {"not-declared", "not-type", "not-int-const", "not-num-const",
              "not-str-lit", "not-signed-int-const"}

(***************************************************************************)
(* The names of one file.  cname gives the C spelling of a Go name.        *)
(***************************************************************************)
NameKeys == {"struct_s", "x"}
\* nameKeys(f.Name): the keys in sorted order
nameKeys == <<"struct_s", "x">>

cname(s) == IF s = "struct_s" THEN "struct s" ELSE s

\* strings.HasPrefix(n.C, "struct ") || ... "union " || ... "enum "
IsTagged(c) == c = "struct s"

\* The #define texts gcc may report for a name ("" : no #define).
DefineVals == {"", "0x10", "\"s\"", "foo"}

\* strconv.ParseInt(def, 0, 64) succeeds
ParseIntOK(def) == def = "0x10"
\* the text starts with a double quote and parses as a Go expression
IsStringLit(def) == def = "\"s\""
\* isName(def): the text is an identifier
isName(def) == def = "foo"

IsConst(n) == n.Kind \in {"iconst", "uconst", "fconst", "sconst"}

NewName(go) ==
    [Go |-> go, C |-> "", Define |-> "", Kind |-> "", Const |-> "",
     Type |-> <<>>, FuncType |-> <<>>, Mangle |-> "", AddError |-> FALSE]

\* p.PtrSize of the target, and the enum switch's offset for signed enums
ptrSize == 8
signedDelta == 64

(***************************************************************************)
(* Foreign types: the debug/dwarf type nodes.  dw maps a node's identity   *)
(* to what gcc.go reads of it.                                             *)
(***************************************************************************)
DT(kind, name, size) ==
    [kind |-> kind, name |-> name, size |-> size, sub |-> Nil, count |-> 0,
     stride |-> 0, bitsize |-> 0, skind |-> "", fields |-> <<>>,
     params |-> <<>>, qual |-> "", neg |-> FALSE]

DField(name, type, off, bits) ==
    [name |-> name, type |-> type, off |-> off, bits |-> bits]

\* dtype.Size(): an array's is its count times its element's, a typedef's or
\* qualifier's is the underlying type's
RECURSIVE DSize(_)
DSize(d) ==
    LET dt == dw[d]
    IN  IF dt.kind = "array" THEN dt.count * DSize(dt.sub)
        ELSE IF dt.kind \in {"typedef", "qual"} THEN DSize(dt.sub)
        ELSE dt.size

\* dtype.Common().Name: base types and typedefs carry it
CommonName(d) ==
    IF dw[d].kind \in {"addr", "bool", "char", "complex", "int", "float",
                       "uchar", "uint", "typedef"}
        THEN dw[d].name ELSE ""

RECURSIVE base(_)
base(d) == IF dw[d].kind \in {"qual", "typedef"} THEN base(dw[d].sub) ELSE d

RECURSIVE unqual(_)
unqual(d) == IF dw[d].kind = "qual" THEN unqual(dw[d].sub) ELSE d

(***************************************************************************)
(* The foreign types of one compilation: a C header with                   *)
(*   struct S { int v; struct S *next; };   struct A { struct B *b; };     *)
(*   struct B { struct A *a; };   union U { int *p; long l; };             *)
(*   struct SU { union U u; };   struct SI { int x, y; };                  *)
(*   struct SP { int *p; };                                                *)
(*   struct P { char c; int *p; } __attribute__((packed));                 *)
(*   typedef struct S T;   typedef union U TU;                             *)
(* and functions over them.  A pointer type has one node per place the     *)
(* debug information describes it: pS and pS2 both point to struct S.      *)
(* Sd and Tl are what the preamble of another file of the package gives    *)
(* for the same names: the declaration "struct S;" alone, and              *)
(* "typedef long T;".  L and SL are debug information no C source gives:   *)
(* a struct with a field of its own type, through a typedef.               *)
(* malloc is a function the preamble declares under that name with a       *)
(* pointer parameter.                                                      *)
(***************************************************************************)
Base(kind, name, size) == DT(kind, name, size)
PtrTo(sub) == [DT("ptr", "", ptrSize) EXCEPT !.sub = sub]
StructT(skind, name, size, fields) ==
    [DT("struct", name, size) EXCEPT !.skind = skind, !.fields = fields]
TypedefT(name, sub) == [DT("typedef", name, 0) EXCEPT !.sub = sub]
QualT(qual, sub) == [DT("qual", "", 0) EXCEPT !.qual = qual, !.sub = sub]
ArrayT(sub, count) == [DT("array", "", 0) EXCEPT !.sub = sub, !.count = count]
FuncT(params, ret) == [DT("func", "", 0) EXCEPT !.params = params, !.sub = ret]

Universe ==
    [int |-> Base("int", "int", 4),
     short |-> Base("int", "short int", 2),
     long |-> Base("int", "long int", 8),
     char |-> Base("char", "char", 1),
     void |-> DT("void", "", 0),
     pvoid |-> PtrTo("void"),
     pint |-> PtrTo("int"),
     zarr |-> ArrayT("int", 0),
     arr |-> ArrayT("int", 3),
     S |-> StructT("struct", "S", 16,
                   <<DField("v", "int", 0, 0), DField("next", "pSn", 8, 0)>>),
     pSn |-> PtrTo("S"),
     pS |-> PtrTo("S"),
     pS2 |-> PtrTo("S"),
     A |-> StructT("struct", "A", 8, <<DField("b", "pB", 0, 0)>>),
     B |-> StructT("struct", "B", 8, <<DField("a", "pA", 0, 0)>>),
     pA |-> PtrTo("A"),
     pB |-> PtrTo("B"),
     pB2 |-> PtrTo("B"),
     U |-> StructT("union", "U", 8,
                   <<DField("p", "pint", 0, 0), DField("l", "long", 0, 0)>>),
     pU |-> PtrTo("U"),
     SU |-> StructT("struct", "SU", 8, <<DField("u", "U", 0, 0)>>),
     pSU |-> PtrTo("SU"),
     P |-> StructT("struct", "P", 9,
                   <<DField("c", "char", 0, 0), DField("p", "pint", 1, 0)>>),
     pP |-> PtrTo("P"),
     SI |-> StructT("struct", "SI", 8,
                    <<DField("x", "int", 0, 0), DField("y", "int", 4, 0)>>),
     pSI |-> PtrTo("SI"),
     SP |-> StructT("struct", "SP", 8, <<DField("p", "pint", 0, 0)>>),
     pSP |-> PtrTo("SP"),
     T |-> TypedefT("T", "S"),
     TU |-> TypedefT("TU", "U"),
     Sd |-> StructT("struct", "S", -1, <<>>),
     Tl |-> TypedefT("T", "long"),
     L |-> TypedefT("L", "SL"),
     SL |-> StructT("struct", "SL", 8, <<DField("f", "L", 0, 0)>>),
     pTU |-> PtrTo("TU"),
     cS |-> QualT("const", "S"),
     pcS |-> PtrTo("cS"),
     f_void |-> FuncT(<<>>, "void"),
     f_int |-> FuncT(<<"int">>, "int"),
     f_pint |-> FuncT(<<"pint">>, "void"),
     f_pvoid |-> FuncT(<<"pvoid">>, "pvoid"),
     malloc |-> FuncT(<<"pvoid">>, "pvoid"),
     f_pS |-> FuncT(<<"pS">>, "void"),
     f_pSI |-> FuncT(<<"pSI">>, "void"),
     f_pSP |-> FuncT(<<"pSP">>, "int"),
     f_pSU |-> FuncT(<<"pSU">>, "void"),
     f_pP |-> FuncT(<<"pP">>, "void"),
     f_pU |-> FuncT(<<"pU">>, "void"),
     f_pTU |-> FuncT(<<"pTU">>, "void"),
     f_arr |-> FuncT(<<"arr">>, "void"),
     f_2 |-> FuncT(<<"pSP", "pint">>, Nil),
     f_pp |-> FuncT(<<"pvoid", "pSP">>, "int")]

(***************************************************************************)
(* Host types: go/ast expressions.  A node that gcc.go later reads by      *)
(* identity or writes through carries the foreign node it was made for.    *)
(***************************************************************************)
NoExpr == [k |-> "none"]
\* an *ast.Ident; id tells apart the nodes that unionWithPointer keys by
\* identity: the foreign node a c.Ident was made for, "c" for typeConv's own
IdentAt(name, id) == [k |-> "ident", name |-> name, id |-> id]
Ident(name) == IdentAt(name, "c")
\* the placeholder &ast.StarExpr{} of pointer node d; its X is conv.starX[d]
Star(d) == [k |-> "star", id |-> d]
\* an &ast.StarExpr{X: x} that is never written again
StarOf(x) == [k |-> "starof", x |-> x]
\* len < 0 : no length (a slice type)
ArrayOf(len, elt, id) == [k |-> "array", len |-> len, elt |-> elt, id |-> id]
StructOf(fields) == [k |-> "struct", fields |-> fields]
GoField(name, type) == [name |-> name, type |-> type]

HasPrefix(s, p) == Len(s) >= Len(p) /\ SubSeq(s, 1, Len(p)) = p

isStructUnionClass(x) ==
    /\ x.k = "ident"
    /\ \/ HasPrefix(x.name, "_Ctype_struct_")
       \/ HasPrefix(x.name, "_Ctype_union_")
       \/ HasPrefix(x.name, "_Ctype_class_")

\* TypeRepr: the format and, where the format has a %s, the Type whose C it prints
TR(repr, of) == [repr |-> repr, of |-> of]
TREmpty(c) == c.repr = ""

\* dwarfToName, then the spaces stripped
PrimName(s) ==
    CASE s = "long int" -> "long"
      [] s = "long unsigned int" -> "ulong"
      [] s = "unsigned int" -> "uint"
      [] s = "short unsigned int" -> "ushort"
      [] s = "short int" -> "short"
      [] s = "long long int" -> "longlong"
      [] s = "long long unsigned int" -> "ulonglong"
      [] s = "signed char" -> "schar"
      [] s = "unsigned char" -> "uchar"
      [] OTHER -> s

(***************************************************************************)
(* typeConv and the package-level maps it writes.                          *)
(***************************************************************************)
EmptyMap == [x \in {} |-> 0]

\* conv.Init on fresh package-level maps
NewConv ==
    [m |-> EmptyMap, ptrs |-> EmptyMap, ptrKeys |-> <<>>, starX |-> EmptyMap,
     typedef |-> EmptyMap, goIdent |-> {}, unionWithPointer |-> {},
     tagGen |-> 0, fatal |-> ""]

goVoidPtr == IF godefs THEN StarOf(Ident("byte")) ELSE Ident("unsafe.Pointer")

Opaque(n, id) == ArrayOf(n, Ident("byte"), id)

Fatal(st, msg) == [st EXCEPT !.fatal = msg]

NewType(d) ==
    [Size |-> DSize(d), Align |-> -1, Go |-> NoExpr, C |-> TR(CommonName(d), Nil),
     Typedef |-> "", EnumValues |-> FALSE]

\* dwarfHasPointer
RECURSIVE dwarfHasPointer(_)
RECURSIVE dwarfFieldsHavePointer(_)
dwarfFieldsHavePointer(fs) ==
    IF fs = <<>> THEN FALSE
    ELSE dwarfHasPointer(Head(fs).type) \/ dwarfFieldsHavePointer(Tail(fs))

dwarfHasPointer(d) ==
    LET dt == dw[d]
    IN  CASE dt.kind \in {"addr", "bool", "char", "enum", "float", "complex",
                          "func", "int", "uchar", "uint", "void"} -> FALSE
          [] dt.kind = "array" -> dwarfHasPointer(dt.sub)
          [] dt.kind = "ptr" -> TRUE
          [] dt.kind = "qual" -> dwarfHasPointer(dt.sub)
          [] dt.kind = "struct" -> dwarfFieldsHavePointer(dt.fields)
          [] dt.kind = "typedef" ->
                 IF dt.name \in {"_GoString_", "_GoBytes_"} THEN TRUE
                 ELSE dwarfHasPointer(dt.sub)
          [] OTHER -> FALSE

\* IntGo that answers int64 for every size
IntGoWide(size, d) == Ident("int64")
\* the fixed-width host type of an integer of a size, NoExpr for no such size
IntGo(size, d) ==
    CASE size = 1 -> Ident("int8")
      [] size = 2 -> Ident("int16")
      [] size = 4 -> Ident("int32")
      [] size = 8 -> Ident("int64")
      [] size = 16 -> ArrayOf(size, Ident("uint8"), d)
      [] OTHER -> NoExpr

UintGo(size, d) ==
    CASE size = 1 -> Ident("uint8")
      [] size = 2 -> Ident("uint16")
      [] size = 4 -> Ident("uint32")
      [] size = 8 -> Ident("uint64")
      [] size = 16 -> ArrayOf(size, Ident("uint8"), d)
      [] OTHER -> NoExpr

\* if t.Align = t.Size; t.Align >= c.ptrSize { t.Align = c.ptrSize }
CapAlign(a) == IF a >= ptrSize THEN ptrSize ELSE a

\* the qualifiers in front of void: "const void*"
RECURSIVE VoidPtrRepr(_)
VoidPtrRepr(d) ==
    IF dw[d].kind = "qual" THEN dw[d].qual \o " " \o VoidPtrRepr(dw[d].sub)
    ELSE "void*"

\* Type, after the switch on the foreign type: the _Ctype_ name of a base
\* type, the unsized types, the check that a C name was made
Post(st, d) ==
    LET dt == dw[d]
        t0 == st.m[d]
        isBase == dt.kind \in {"addr", "bool", "char", "complex", "int", "float",
                               "uchar", "uint"}
        named == isBase /\ dt.name # ""
        cname1 == "_Ctype_" \o PrimName(dt.name)
        st1 == IF named
                  THEN [st EXCEPT !.typedef = (cname1 :> t0) @@ @,
                                  !.m[d].Go = IF godefs THEN @ ELSE IdentAt(cname1, d)]
                  ELSE st
        t1 == st1.m[d]
        t2 == IF t1.Size < 0
                 THEN LET go == IF dt.kind = "typedef" THEN t1.Go
                                ELSE IF dt.kind = "struct" /\ dt.name # "" THEN t1.Go
                                ELSE Opaque(0, d)
                      IN  [t1 EXCEPT !.Size = 0, !.Go = go,
                                     !.C = IF TREmpty(@) THEN TR("void", Nil) ELSE @]
                 ELSE t1
    IN  IF TREmpty(t2.C) THEN Fatal(st1, "did not create C name")
        ELSE [st1 EXCEPT !.m[d] = t2]

(***************************************************************************)
(* typeConv.Type and typeConv.Struct.  Both return the typeConv after the  *)
(* call; the Type that Type(dtype) returns is m[dtype].                    *)
(***************************************************************************)
GoKeywords == {"type", "func", "chan", "map", "range", "var", "go", "defer",
               "select", "import", "package", "interface", "fallthrough"}

\* the Go name of the C field name: a keyword gets "_" in front until unused
RECURSIVE Unused(_, _)
Unused(goid, used) == IF goid \in used THEN Unused("_" \o goid, used) ELSE goid

FieldIdent(name, used) ==
    IF ~godefs /\ name \in GoKeywords THEN Unused("_" \o name, used) ELSE name

\* c.pad: one more field "_" of size bytes
pad(acc, size) ==
    [acc EXCEPT !.fld = Append(@, GoField("_", Opaque(size, "pad"))),
                !.sizes = Append(@, size)]

\* the trailing fields of size 0 removed, while off > 0
RECURSIVE DropZeroTail(_)
DropZeroTail(acc) ==
    IF acc.off > 0 /\ acc.sizes[Len(acc.sizes)] = 0
        THEN DropZeroTail([acc EXCEPT
                 !.fld = SubSeq(@, 1, Len(@) - 1),
                 !.sizes = SubSeq(@, 1, Len(@) - 1),
                 !.src = SubSeq(@, 1, Len(@) - 1)])
        ELSE acc

\* the name of a bit field's type: "int" or "uint" and the number of bits
BitFieldGo(tgo, bits) ==
    IF HasPrefix(tgo.name, "int") THEN IdentAt("int" \o ToString(bits), "new")
    ELSE IdentAt("uint" \o ToString(bits), "new")

(***************************************************************************)
(* godefsFields, fieldPrefix and upper.                                    *)
(***************************************************************************)
LowerCase == <<"a", "b", "c", "d", "e", "f", "g", "h", "i", "j", "k", "l", "m",
               "n", "o", "p", "q", "r", "s", "t", "u", "v", "w", "x", "y", "z">>
UpperCase == <<"A", "B", "C", "D", "E", "F", "G", "H", "I", "J", "K", "L", "M",
               "N", "O", "P", "Q", "R", "S", "T", "U", "V", "W", "X", "Y", "Z">>
ToUpper(ch) ==
    IF \E i \in DOMAIN LowerCase : LowerCase[i] = ch
        THEN UpperCase[CHOOSE i \in DOMAIN LowerCase : LowerCase[i] = ch]
        ELSE ch

upper(s) ==
    IF s = "" THEN ""
    ELSE IF SubSeq(s, 1, 1) = "_" THEN "X" \o s
    ELSE ToUpper(SubSeq(s, 1, 1)) \o SubSeq(s, 2, Len(s))

\* strings.Index(s, "_") + 1: 0 when there is none
IndexUnderscore(s) ==
    IF \E i \in 1..Len(s) : SubSeq(s, i, i) = "_"
        THEN CHOOSE i \in 1..Len(s) :
                 /\ SubSeq(s, i, i) = "_"
                 /\ \A j \in 1..(i - 1) : SubSeq(s, j, j) # "_"
        ELSE 0

TrimPrefix(s, p) == IF HasPrefix(s, p) THEN SubSeq(s, Len(p) + 1, Len(s)) ELSE s

RECURSIVE fieldPrefixFrom(_, _, _)
fieldPrefixFrom(fld, i, prefix) ==
    IF i > Len(fld) THEN prefix
    ELSE LET n == fld[i].name
             j == IndexUnderscore(n)
         IN  IF HasPrefix(n, "orig_") \/ HasPrefix(n, "_") \/ j = 0
                 THEN fieldPrefixFrom(fld, i + 1, prefix)
             ELSE IF prefix = ""
                 THEN fieldPrefixFrom(fld, i + 1, SubSeq(n, 1, j))
             ELSE IF prefix # SubSeq(n, 1, j) THEN ""
             ELSE fieldPrefixFrom(fld, i + 1, prefix)

fieldPrefix(fld) == fieldPrefixFrom(fld, 1, "")

RECURSIVE godefsFieldsFrom(_, _, _, _)
godefsFieldsFrom(fld, i, prefix, npad) ==
    IF i > Len(fld) THEN fld
    ELSE LET n0 == fld[i].name
             n1 == IF n0 # prefix THEN TrimPrefix(n0, prefix) ELSE n0
             n2 == IF n1 = "_" THEN "Pad_cgo_" \o ToString(npad) ELSE n1
         IN  godefsFieldsFrom([fld EXCEPT ![i].name = upper(n2)], i + 1, prefix,
                              IF n1 = "_" THEN npad + 1 ELSE npad)

godefsFields(fld) == godefsFieldsFrom(fld, 1, fieldPrefix(fld), 0)

(***************************************************************************)
(* typeConv.Struct.  Beside fld and sizes the loop's state keeps src: for  *)
(* each emitted field what it was emitted for, <<"field", i>> for dt.Field *)
(* i, <<"gap", i>> for the padding in front of it, <<"tail", 0>> for the   *)
(* padding up to dt.ByteSize.                                              *)
(***************************************************************************)
RECURSIVE TypeConv(_, _)
RECURSIVE StructLoop(_, _, _, _)

\* FieldAlign of one byte whatever the field
FieldAlignOne(f, t) == 1
\* the byte size and the alignment Struct gives field f of type t
FieldSize(f, t) == IF f.bits > 0 THEN f.bits \div 8 ELSE t.Size
FieldAlign(f, t) == IF f.bits > 0 THEN f.bits \div 8 ELSE t.Align

\* GapSize of one byte whatever the gap
GapSizeOne(foff, off) == 1
\* the padding Struct puts in front of a field declared at offset foff
GapSize(foff, off) == foff - off

\* the rest of the loop's body once the field's type ft is translated (st1):
\* the field is skipped, or emitted under name0 or a generated name
StructField(st1, d, i, acc1, ft, name0, promote) ==
    IF st1.fatal # "" THEN [st |-> st1, acc |-> acc1]
    ELSE
      LET f == dw[d].fields[i]
          used == {dw[d].fields[j].name : j \in DOMAIN dw[d].fields}
          t == st1.m[ft]
          bitfield == f.bits > 0
          size == FieldSize(f, t)
          talign == FieldAlign(f, t)
          name == IF name0 = "" THEN "anon" \o ToString(acc1.anon)
                  ELSE IF promote THEN name0
                  ELSE FieldIdent(name0, used)
      IN  IF bitfield /\ f.bits % 8 # 0
              THEN StructLoop(st1, d, i + 1, acc1)
          ELSE IF bitfield /\ t.Go.k # "ident"
              THEN [st |-> Fatal(st1, "panic: interface conversion"),
                    acc |-> acc1]
          ELSE IF talign > 0 /\ f.off % talign # 0
              THEN StructLoop(st1, d, i + 1, acc1)
          ELSE StructLoop(st1, d, i + 1,
                 [acc1 EXCEPT
                    !.fld = Append(@, GoField(name,
                               IF bitfield THEN BitFieldGo(t.Go, f.bits)
                               ELSE t.Go)),
                    !.sizes = Append(@, size),
                    !.src = Append(@, <<"field", i>>),
                    !.off = @ + size,
                    !.anon = IF name0 = "" THEN @ + 1 ELSE @,
                    !.align = IF talign > @ THEN talign ELSE @])

\* the padding in front of field i, when it lies beyond off
GapPad(acc, foff, i) ==
    IF foff > acc.off
        THEN [pad(acc, GapSize(foff, acc.off)) EXCEPT
                !.off = foff, !.src = Append(@, <<"gap", i>>)]
        ELSE acc

\* in godefs mode an unnamed union field stands for the union's first field
Promote(f, used) ==
    /\ godefs
    /\ dw[f.type].kind = "struct"
    /\ f.name = ""
    /\ dw[f.type].skind = "union"
    /\ Len(dw[f.type].fields) > 0
    /\ dw[f.type].fields[1].name \notin used

StructLoop(st, d, i, acc) ==
    IF st.fatal # "" \/ i > Len(dw[d].fields) THEN [st |-> st, acc |-> acc]
    ELSE
      LET f == dw[d].fields[i]
          used == {dw[d].fields[j].name : j \in DOMAIN dw[d].fields}
          promote == Promote(f, used)
          name0 == IF promote THEN dw[f.type].fields[1].name ELSE f.name
          ft == IF promote THEN dw[f.type].fields[1].type ELSE f.type
      IN  StructField(TypeConv(st, ft), d, i, GapPad(acc, f.off, i), ft, name0,
                      promote)

\* SizeMismatch that accepts every size
SizeMismatchNever(off, bytesize) == FALSE
\* off != dt.ByteSize
SizeMismatch(off, bytesize) == off # bytesize

\* the end of Struct, r what the loop over the fields left
StructEnd(r, a2, d) ==
    IF r.st.fatal # ""
        THEN [st |-> r.st, fld |-> <<>>, sizes |-> <<>>, src |-> <<>>, align |-> 1]
    ELSE IF SizeMismatch(a2.off, dw[d].size)
        THEN [st |-> Fatal(r.st, "struct size calculation error"),
              fld |-> a2.fld, sizes |-> a2.sizes, src |-> a2.src,
              align |-> a2.align]
    ELSE [st |-> r.st,
          fld |-> IF godefs THEN godefsFields(a2.fld) ELSE a2.fld,
          sizes |-> a2.sizes, src |-> a2.src, align |-> a2.align]

\* the padding up to dt.ByteSize
TailPad(acc, bytesize) ==
    IF acc.off < bytesize
        THEN [pad(acc, bytesize - acc.off) EXCEPT
                !.off = bytesize, !.src = Append(@, <<"tail", 0>>)]
        ELSE acc

StructAfterLoop(r, d) == StructEnd(r, DropZeroTail(TailPad(r.acc, dw[d].size)), d)

\* Struct: [st, fld, sizes, src, align]; st.fatal is set when the sizes disagree
Struct(st, d) ==
    StructAfterLoop(StructLoop(st, d, 1,
                        [fld |-> <<>>, sizes |-> <<>>, src |-> <<>>, off |-> 0,
                         align |-> 1, anon |-> 0]), d)

\* the tag of struct node d: dt.StructName, or "__" and tagGen
StructTag(s0, d) ==
    IF dw[d].name = "" THEN "__" \o ToString(s0.tagGen) ELSE dw[d].name

\* the typeConv once the struct's name is published, before the fields
Published(s0, d) ==
    LET dt == dw[d]
        t == s0.m[d]
        anonymous == dt.name = ""
        tag == StructTag(s0, d)
        c1 == IF ~anonymous /\ TREmpty(t.C) THEN TR(dt.skind \o " " \o tag, Nil)
              ELSE t.C
        name == "_Ctype_" \o dt.skind \o "_" \o tag
    IN  [s0 EXCEPT !.tagGen = IF anonymous THEN @ + 1 ELSE @,
                   !.goIdent = @ \cup {name},
                   !.m[d] = [t EXCEPT !.C = c1, !.Go = IdentAt(name, d)]]

\* case "struct" of the switch on dt.Kind, r what Struct returned
TypeStructDone(r, d, name, tag) ==
    LET t2 == [r.st.m[d] EXCEPT
                 !.C = IF TREmpty(@) THEN TR("struct {...}", Nil) ELSE @,
                 !.Align = r.align]
        tt == [t2 EXCEPT !.C = TR("struct " \o tag, Nil),
                         !.Go = StructOf(r.fld)]
    IN  IF r.st.fatal # "" THEN r.st
        ELSE Post([r.st EXCEPT !.m[d] = t2,
                               !.typedef = (name :> tt) @@ @], d)

\* case "class", "union" of the switch on dt.Kind
TypeUnion(s1, d, name) ==
    LET t1 == s1.m[d]
        go == Opaque(t1.Size, d)
        t2 == [t1 EXCEPT
                 !.Go = go,
                 !.C = IF TREmpty(@)
                          THEN TR("__typeof__(unsigned char[%d])", Nil)
                          ELSE @,
                 !.Align = 1]
    IN  Post([s1 EXCEPT
                !.unionWithPointer = IF dwarfHasPointer(d) THEN @ \cup {go} ELSE @,
                !.m[d] = t2,
                !.typedef = (name :> t2) @@ @], d)

\* the struct of unknown size: the name alone
TypeIncomplete(s1, d, name, tag) ==
    Post([s1 EXCEPT !.typedef =
            (name :> [s1.m[d] EXCEPT !.C = TR(dw[d].skind \o " " \o tag, Nil),
                                     !.Go = IdentAt("struct{}", d)]) @@ @], d)

TypeStructNamed(s0, s1, d, name, tag) ==
    IF dw[d].size < 0 /\ dw[d].name = "" THEN Post(s0, d)
    ELSE IF dw[d].size < 0 THEN TypeIncomplete(s1, d, name, tag)
    ELSE IF dw[d].skind \in {"class", "union"} THEN TypeUnion(s1, d, name)
    ELSE TypeStructDone(Struct(s1, d), d, name, tag)

\* case *dwarf.StructType of Type
TypeStruct(s0, d) ==
    TypeStructNamed(s0, Published(s0, d), d,
                    "_Ctype_" \o dw[d].skind \o "_" \o StructTag(s0, d),
                    StructTag(s0, d))

\* Registered that never finds the tag
RegisteredNever(td, name) == FALSE
\* oldType := typedef[name.Name]; oldType != nil
Registered(td, name) == name \in DOMAIN td

\* the typedef once its underlying type is translated (s1)
TypedefDone(s1, d, name) ==
    IF s1.fatal # "" THEN s1
    ELSE
      LET sub == s1.m[dw[d].sub]
          oldType == IF Registered(s1.typedef, name)
                        THEN <<s1.typedef[name]>> ELSE <<>>
          t1 == [s1.m[d] EXCEPT !.Go = IdentAt(name, d), !.Size = sub.Size,
                                !.Align = sub.Align]
          uwp1 == IF sub.Go \in s1.unionWithPointer
                     THEN s1.unionWithPointer \cup {t1.Go}
                     ELSE s1.unionWithPointer
          td1 == IF oldType = <<>>
                    THEN (name :> [t1 EXCEPT !.Go = sub.Go]) @@ s1.typedef
                    ELSE s1.typedef
          suc == isStructUnionClass(sub.Go)
          td2 == IF suc THEN [td1 EXCEPT ![sub.Go.name].C = t1.C] ELSE td1
          go == IF suc \/ godefs
                   THEN IF oldType # <<>> /\ isStructUnionClass(oldType[1].Go)
                           THEN oldType[1].Go ELSE sub.Go
                   ELSE t1.Go
      IN  Post([s1 EXCEPT !.m[d] = [t1 EXCEPT !.Go = go],
                          !.unionWithPointer = uwp1,
                          !.typedef = td2], d)

\* case *dwarf.TypedefType of Type
TypeTypedef(s0, d) ==
    IF dw[d].name = "_GoString_"
        THEN Post([s0 EXCEPT !.m[d] = [@ EXCEPT !.Go = Ident("string"),
                                                !.Size = ptrSize * 2,
                                                !.Align = ptrSize]], d)
    ELSE IF dw[d].name = "_GoBytes_"
        THEN Post([s0 EXCEPT !.m[d] = [@ EXCEPT !.Go = IdentAt("[]byte", d),
                                                !.Size = ptrSize + 4 + 4,
                                                !.Align = ptrSize]], d)
    ELSE TypedefDone(TypeConv([s0 EXCEPT !.goIdent = @ \cup {"_Ctype_" \o dw[d].name}],
                              dw[d].sub),
                     d, "_Ctype_" \o dw[d].name)

\* case *dwarf.PtrType of Type
TypePtr(s0, d) ==
    LET dt == dw[d]
        t == [s0.m[d] EXCEPT !.Size = ptrSize, !.Align = ptrSize]
    IN  IF s0.m[d].Size # ptrSize /\ s0.m[d].Size # -1
            THEN Fatal(s0, "unexpected pointer size")
        ELSE IF dw[base(dt.sub)].kind = "void"
            THEN Post([s0 EXCEPT !.m[d] =
                         [t EXCEPT !.Go = goVoidPtr,
                                   !.C = TR(VoidPtrRepr(dt.sub), Nil)]], d)
        ELSE Post([s0 EXCEPT
                     !.m[d] = [t EXCEPT !.Go = Star(d),
                                        !.C = TR("<incomplete>*", Nil)],
                     !.starX = (d :> <<>>) @@ @,
                     !.ptrKeys = IF dt.sub \in DOMAIN s0.ptrs
                                    THEN @ ELSE Append(@, dt.sub),
                     !.ptrs = IF dt.sub \in DOMAIN s0.ptrs
                                 THEN [@ EXCEPT ![dt.sub] = Append(@, d)]
                                 ELSE (dt.sub :> <<d>>) @@ @], d)

\* Cached that never finds the node
CachedNever(st, d) == FALSE
\* if t, ok := c.m[dtype]; ok
Cached(st, d) == d \in DOMAIN st.m

\* t.Go and t.Align set, then the rest of Type
SetGo(s0, d, go, align) ==
    Post([s0 EXCEPT !.m[d] = [@ EXCEPT !.Go = go, !.Align = align]], d)

\* case *dwarf.ArrayType, the element translated (s1)
ArrayDone(s1, d, count) ==
    IF s1.fatal # "" THEN s1
    ELSE Post([s1 EXCEPT !.m[d] =
                 [@ EXCEPT !.Align = s1.m[dw[d].sub].Align,
                           !.Go = ArrayOf(count, s1.m[dw[d].sub].Go, d),
                           !.Size = count * s1.m[dw[d].sub].Size,
                           !.C = TR("__typeof__(%s[%d])", dw[d].sub)]], d)

\* case *dwarf.QualType, the qualified type translated (s1)
QualDone(s1, d) ==
    IF s1.fatal # "" THEN s1
    ELSE [s1 EXCEPT !.m[d] =
            [@ EXCEPT !.Size = s1.m[dw[d].sub].Size,
                      !.Align = s1.m[dw[d].sub].Align,
                      !.Go = s1.m[dw[d].sub].Go, !.Typedef = "",
                      !.EnumValues = FALSE,
                      !.C = TR("%s " \o dw[d].qual, dw[d].sub)]]

\* the switch on t.Size + int64(signed) of an enum: NoExpr for the default case
EnumGo(sum, d) ==
    IF sum > signedDelta
        THEN (IF sum - signedDelta \in {1, 2, 4, 8}
                 THEN IntGo(sum - signedDelta, d) ELSE NoExpr)
        ELSE (IF sum \in {1, 2, 4, 8} THEN UintGo(sum, d) ELSE NoExpr)

\* the switch on the foreign type of a node new to the cache; s0 has m[d]
TypeNew(s0, d, dt, size) ==
    CASE dt.kind = "addr" ->
           IF size # ptrSize THEN Fatal(s0, "unexpected address size")
           ELSE SetGo(s0, d, Ident("uintptr"), size)
      [] dt.kind = "array" ->
           IF dt.stride > 0
              THEN Post([s0 EXCEPT !.m[d].Go = Opaque(size, d)], d)
              ELSE ArrayDone(TypeConv(s0, dt.sub), d,
                             IF dt.count = -1 THEN 0 ELSE dt.count)
      [] dt.kind = "bool" -> SetGo(s0, d, Ident("bool"), 1)
      [] dt.kind = "char" ->
           IF size # 1 THEN Fatal(s0, "unexpected char size")
           ELSE SetGo(s0, d, Ident("int8"), 1)
      [] dt.kind = "enum" ->
           IF EnumGo(size + (IF dt.neg THEN signedDelta ELSE 0), d) = NoExpr
              THEN Fatal(s0, "unexpected enum size")
              ELSE Post([s0 EXCEPT !.m[d] =
                      [@ EXCEPT !.Align = CapAlign(size),
                                !.C = TR("enum " \o dt.name, Nil),
                                !.EnumValues = TRUE,
                                !.Go = EnumGo(size + (IF dt.neg THEN signedDelta
                                                      ELSE 0), d)]], d)
      [] dt.kind = "float" ->
           IF size = 4 THEN SetGo(s0, d, Ident("float32"), CapAlign(size))
           ELSE IF size = 8 THEN SetGo(s0, d, Ident("float64"), CapAlign(size))
           ELSE Fatal(s0, "unexpected float size")
      [] dt.kind = "complex" ->
           IF size = 8 THEN SetGo(s0, d, Ident("complex64"), CapAlign(size \div 2))
           ELSE IF size = 16
              THEN SetGo(s0, d, Ident("complex128"), CapAlign(size \div 2))
           ELSE Fatal(s0, "unexpected complex size")
      [] dt.kind = "func" -> SetGo(s0, d, Ident("uintptr"), ptrSize)
      [] dt.kind = "int" ->
           IF dt.bitsize > 0 THEN Fatal(s0, "unexpected bit-sized int")
           ELSE IF IntGo(size, d) = NoExpr THEN Fatal(s0, "unexpected int size")
           ELSE SetGo(s0, d, IntGo(size, d), CapAlign(size))
      [] dt.kind = "ptr" -> TypePtr(s0, d)
      [] dt.kind = "qual" -> QualDone(TypeConv(s0, dt.sub), d)
      [] dt.kind = "struct" -> TypeStruct(s0, d)
      [] dt.kind = "typedef" -> TypeTypedef(s0, d)
      [] dt.kind = "uchar" ->
           IF size # 1 THEN Fatal(s0, "unexpected uchar size")
           ELSE SetGo(s0, d, Ident("uint8"), 1)
      [] dt.kind = "uint" ->
           IF dt.bitsize > 0 THEN Fatal(s0, "unexpected bit-sized uint")
           ELSE IF UintGo(size, d) = NoExpr THEN Fatal(s0, "unexpected uint size")
           ELSE SetGo(s0, d, UintGo(size, d), CapAlign(size))
      [] dt.kind = "void" ->
           Post([s0 EXCEPT !.m[d] = [@ EXCEPT !.Go = Ident("_Ctype_void"),
                                              !.C = TR("void", Nil),
                                              !.Align = 1]], d)
      [] OTHER -> Fatal(s0, "unexpected type")

\* InProgress that takes every cached Type for a finished one
InProgressNever(t) == FALSE
\* if t.Go == nil: the Type is in the cache and its translation is not over
InProgress(t) == t.Go = NoExpr

\* Type: the typeConv after the call; the *Type it returns is m[d]
TypeConv(st, d) ==
    IF st.fatal # "" THEN st
    ELSE IF Cached(st, d)
        THEN IF InProgress(st.m[d]) THEN Fatal(st, "type conversion loop") ELSE st
    ELSE TypeNew([st EXCEPT !.m = (d :> NewType(d)) @@ @], d, dw[d], DSize(d))

\* PatchOne that writes the target's spelling without the star
PatchOneNoStar(st, ptr, dtype) ==
    [st EXCEPT !.starX[ptr] = <<st.m[dtype].Go>>, !.m[ptr].C = st.m[dtype].C]
\* PatchOne that writes the C spelling and leaves X unset
PatchOneSpelling(st, ptr, dtype) == [st EXCEPT !.m[ptr].C = TR("%s*", dtype)]
\* FinishType: ptr.Go.(*ast.StarExpr).X = t.Go; ptr.C.Set("%s*", t.C)
PatchOne(st, ptr, dtype) ==
    [st EXCEPT !.starX[ptr] = <<st.m[dtype].Go>>,
               !.m[ptr].C = TR("%s*", dtype)]

RECURSIVE Patch(_, _, _)
Patch(st, ptrs, dtype) ==
    IF ptrs = <<>> THEN st
    ELSE Patch(PatchOne(st, Head(ptrs), dtype), Tail(ptrs), dtype)

\* Drained that deletes the map key
DrainedForgotten(st, dtype) ==
    [st EXCEPT !.ptrs = [k \in DOMAIN @ \ {dtype} |-> @[k]]]
\* c.ptrs[dtype] = nil // retain the map key
Drained(st, dtype) == [st EXCEPT !.ptrs[dtype] = <<>>]

\* the body of FinishType's loop once Type(dtype) returned (s1): the
\* pointers to dtype completed
FinishPatched(s1, dtype) ==
    IF s1.fatal # "" THEN s1
    ELSE Drained(Patch(s1, s1.ptrs[dtype], dtype), dtype)

\* one turn of FinishType's loop: the head of ptrKeys taken off and
\* translated, the pointers to it completed
FinishTurn(st) ==
    FinishPatched(TypeConv([st EXCEPT !.ptrKeys = Tail(@)], Head(st.ptrKeys)),
                  Head(st.ptrKeys))

RECURSIVE FinishType(_)
\* a turn of the loop and the turns that follow it
FinishOne(s1, dtype) ==
    IF s1.fatal # "" THEN s1
    ELSE FinishType(FinishPatched(s1, dtype))

FinishType(st) ==
    IF st.fatal # "" \/ st.ptrKeys = <<>> THEN st
    ELSE FinishOne(TypeConv([st EXCEPT !.ptrKeys = Tail(@)], Head(st.ptrKeys)),
                   Head(st.ptrKeys))

(***************************************************************************)
(* typeConv.FuncArg and typeConv.FuncType.  A parameter or result is the   *)
(* Type of a foreign node (ref), shared with the typeConv, or a Type of    *)
(* its own (own).                                                          *)
(***************************************************************************)
Shared(d) == [ref |-> d, own |-> <<>>]
Owned(t) == [ref |-> Nil, own |-> <<t>>]

\* the Type a parameter or result stands for
TypeAt(st, p) == IF p.ref # Nil THEN st.m[p.ref] ELSE p.own[1]

\* case *dwarf.TypedefType of FuncArg: the typedef of a pointer, ptr
\* translated (s2)
FuncArgPtr(s2, ptr, name) ==
    IF s2.fatal # "" THEN [st |-> s2, arg |-> Shared(ptr)]
    ELSE [st |-> IF isStructUnionClass(s2.m[ptr].Go)
                    THEN [s2 EXCEPT !.m[ptr].Typedef = name]
                    ELSE s2,
          arg |-> Shared(ptr)]

\* FuncArg after its first statement, t := c.Type(unqual(dtype), pos)
FuncArgDone(s1, d) ==
    IF s1.fatal # "" THEN [st |-> s1, arg |-> Shared(unqual(d))]
    ELSE IF dw[d].kind = "array"
        THEN [st |-> s1,
              arg |-> Owned([Size |-> ptrSize, Align |-> ptrSize,
                             Go |-> StarOf(s1.m[d].Go),
                             C |-> TR("%s*", d), Typedef |-> "",
                             EnumValues |-> FALSE])]
    ELSE IF /\ dw[d].kind = "typedef"
            /\ dw[base(dw[d].sub)].kind = "ptr"
            /\ dw[base(dw[base(dw[d].sub)].sub)].kind # "void"
        THEN FuncArgPtr(TypeConv(s1, base(dw[d].sub)), base(dw[d].sub), dw[d].name)
    ELSE [st |-> s1, arg |-> Shared(unqual(d))]

\* FuncArg: [st, arg]
FuncArg(st, d) == FuncArgDone(TypeConv(st, unqual(d)), d)

RECURSIVE FuncArgs(_, _, _, _)
FuncArgsNext(r, ps, i, acc) == FuncArgs(r.st, ps, i + 1, Append(acc, r.arg))

FuncArgs(st, ps, i, acc) ==
    IF st.fatal # "" \/ i > Len(ps) THEN [st |-> st, p |-> acc]
    ELSE IF dw[ps[i]].kind = "dotdotdot" /\ i = 1 THEN [st |-> st, p |-> <<>>]
    ELSE FuncArgsNext(FuncArg(st, ps[i]), ps, i, acc)

\* the *FuncType built from the parameters p and the result res
FuncTypeOf(s2, p, res, void) ==
    [st |-> s2,
     ft |-> [Params |-> p, Result |-> res,
             Go |-> [Params |-> [i \in DOMAIN p |-> TypeAt(s2, p[i]).Go],
                     Results |-> IF void THEN <<Ident("_Ctype_void")>>
                                 ELSE IF res # <<>> THEN <<TypeAt(s2, res[1]).Go>>
                                 ELSE <<>>]]]

\* FuncType once the parameters are translated (r)
FuncTypeResult(r, d) ==
    IF dw[d].sub # Nil /\ dw[base(dw[d].sub)].kind = "void"
        THEN FuncTypeOf(r.st, r.p, <<>>, TRUE)
    ELSE IF dw[d].sub # Nil
        THEN FuncTypeOf(TypeConv(r.st, unqual(dw[d].sub)), r.p,
                        <<Shared(unqual(dw[d].sub))>>, FALSE)
    ELSE FuncTypeOf(r.st, r.p, <<>>, FALSE)

\* FuncType: [st, ft]; Result is <<>> for none
FuncType(st, d) == FuncTypeResult(FuncArgs(st, dw[d].params, 1, <<>>), d)

(***************************************************************************)
(* needsPointerCheck and hasPointer.  The answer is "yes", "no", or        *)
(* "panic" when the walk reaches a pointer placeholder that was never      *)
(* given its target (a nil ast.Expr, whose Pos() the default case calls).  *)
(***************************************************************************)
\* goTypes: the predeclared Go types cgo knows
goTypes == {"bool", "byte", "int", "uint", "rune", "int8", "uint8", "int16",
            "uint16", "int32", "uint32", "int64", "uint64", "float32",
            "float64", "complex64", "complex128", "uintptr"}

\* p.Decl: the type declarations of the Go files, name -> declared type:
\*   type T C.x;  type _Ctype_short *int32
Decl == ("T" :> [k |-> "selexpr", x |-> [k |-> "ident", name |-> "C"],
                 sel |-> "x"])
        @@ ("_Ctype_short" :> StarOf(Ident("int32")))

\* Resolve that asks the typedef map before the declarations
ResolveTypedefFirst(st, name) ==
    IF name \in DOMAIN st.typedef THEN <<st.typedef[name].Go>>
    ELSE IF name \in DOMAIN Decl THEN <<Decl[name]>>
    ELSE <<>>
\* the type a name stands for: the loop over p.Decl, then typedef[t.Name];
\* <<>> when neither has it
Resolve(st, name) ==
    IF name \in DOMAIN Decl THEN <<Decl[name]>>
    ELSE IF name \in DOMAIN st.typedef THEN <<st.typedef[name].Go>>
    ELSE <<>>

RECURSIVE hasPointer(_, _, _)
RECURSIVE fieldsHavePointer(_, _, _)
fieldsHavePointer(st, fs, top) ==
    IF fs = <<>> THEN "no"
    ELSE LET r == hasPointer(st, Head(fs).type, top)
         IN  IF r = "no" THEN fieldsHavePointer(st, Tail(fs), top) ELSE r

\* the StarExpr case, x the X of the pointer (<<>> : nil)
StarHasPointer(st, x, top) ==
    IF ~top THEN "yes"
    ELSE IF x = <<>> THEN "panic"
    ELSE IF x[1] \in st.unionWithPointer THEN "yes"
    ELSE hasPointer(st, x[1], FALSE)

hasPointer(st, t, top) ==
    CASE t.k = "array" ->
             IF t.len < 0
                THEN IF ~top THEN "yes" ELSE hasPointer(st, t.elt, FALSE)
                ELSE hasPointer(st, t.elt, top)
      [] t.k = "struct" -> fieldsHavePointer(st, t.fields, top)
      [] t.k = "star" -> StarHasPointer(st, st.starX[t.id], top)
      [] t.k = "starof" -> StarHasPointer(st, <<t.x>>, top)
      [] t.k \in {"functype", "interface", "map", "chan"} -> "yes"
      [] t.k = "ident" ->
             IF Resolve(st, t.name) # <<>>
                THEN hasPointer(st, Resolve(st, t.name)[1], top)
             ELSE IF t.name = "string" THEN (IF top THEN "no" ELSE "yes")
             ELSE IF t.name = "error" THEN "yes"
             ELSE IF t.name \in goTypes THEN "no"
             ELSE "yes"
      [] t.k = "selexpr" ->
             IF ~(t.x.k = "ident" /\ t.x.name = "C") THEN "yes"
             ELSE IF /\ t.sel \in DOMAIN Name
                     /\ Name[t.sel].Kind = "type"
                     /\ Name[t.sel].Type # <<>>
                     /\ TypeAt(st, Name[t.sel].Type[1]).Go # NoExpr
                THEN hasPointer(st, TypeAt(st, Name[t.sel].Type[1]).Go, top)
             ELSE "yes"
      [] t.k = "none" -> "panic"
      [] OTHER -> "yes"

\* IsNilArg that takes no argument for nil
IsNilArgNever(arg) == FALSE

\* if id, ok := arg.(*ast.Ident); ok && id.Name == "nil" && id.Obj == nil
IsNilArg(arg) == arg.k = "ident" /\ arg.name = "nil"

needsPointerCheck(st, t, arg) ==
    IF IsNilArg(arg) THEN "no" ELSE hasPointer(st, t, TRUE)

(***************************************************************************)
(* rewriteCall.  The arguments of a call are go/ast expressions of the     *)
(* user's file: identifiers, &x, x[i], x.f, calls and conversions.         *)
(***************************************************************************)
Var(name) == [k |-> "ident", name |-> name]
AddrOf(x) == [k |-> "unary", op |-> "&", x |-> x]
Index(x) == [k |-> "index", x |-> x]
Select(x, sel) == [k |-> "selexpr", x |-> x, sel |-> sel]
CallOf(fun, args) == [k |-> "call", fun |-> fun, args |-> args]
ExprStmt(x) == [k |-> "exprstmt", x |-> x]
ReturnStmt(x) == [k |-> "return", x |-> x]

BuiltinTypeNames ==
    {"unsafe.Pointer", "bool", "byte", "complex64", "complex128", "error",
     "float32", "float64", "int", "int8", "int16", "int32", "int64", "rune",
     "string", "uint", "uint8", "uint16", "uint32", "uint64", "uintptr"}

RECURSIVE isType(_, _)
isType(st, t) ==
    CASE t.k = "selexpr" ->
             /\ t.x.k = "ident"
             /\ \/ t.x.name = "unsafe" /\ t.sel = "Pointer"
                \/ t.x.name = "C" /\ ("_Ctype_" \o t.sel) \in DOMAIN st.typedef
      [] t.k = "ident" -> t.name \in BuiltinTypeNames
      [] t.k = "starexpr" -> isType(st, t.x)
      [] t.k \in {"array", "struct", "functype", "interface", "map", "chan"} -> TRUE
      [] OTHER -> FALSE

\* hasSideEffects: the expression holds a call
RECURSIVE hasSideEffects(_)
hasSideEffects(x) ==
    CASE x.k = "call" -> TRUE
      [] x.k \in {"unary", "index", "selexpr", "starexpr"} -> hasSideEffects(x.x)
      [] OTHER -> FALSE

RECURSIVE StripConversions(_, _)
StripConversions(st, x) ==
    IF x.k = "call" /\ Len(x.args) = 1 /\ isType(st, x.fun)
        THEN StripConversions(st, x.args[1]) ELSE x

\* a checkAddrArgs that takes every address for the address of a single value
checkAddrArgsSingle(st, args, x0) ==
    LET x == StripConversions(st, x0)
    IN  IF x.k = "unary" /\ x.op = "&" THEN Append(args, Var("true")) ELSE args

checkAddrArgs(st, args, x0) ==
    LET x == StripConversions(st, x0)
    IN  IF ~(x.k = "unary" /\ x.op = "&") THEN args
        ELSE IF x.x.k # "index" THEN Append(args, Var("true"))
        ELSE IF ~hasSideEffects(x.x.x) THEN Append(args, x.x.x)
        ELSE args

\* a rewriteUnsafe that leaves every type as it is
rewriteUnsafeNone(st, t) == t

RECURSIVE rewriteUnsafe(_, _)
rewriteUnsafe(st, t) ==
    CASE t.k = "ident" ->
             IF t.name = "unsafe.Pointer" THEN Ident("_cgo_unsafe.Pointer") ELSE t
      [] t.k = "array" -> [t EXCEPT !.elt = rewriteUnsafe(st, @)]
      [] t.k = "struct" ->
             [t EXCEPT !.fields = [i \in DOMAIN @ |->
                   [@[i] EXCEPT !.type = rewriteUnsafe(st, @)]]]
      [] t.k = "star" ->
             IF st.starX[t.id] = <<>> THEN t
             ELSE LET x1 == rewriteUnsafe(st, st.starX[t.id][1])
                  IN  IF x1 # st.starX[t.id][1] THEN StarOf(x1) ELSE t
      [] t.k = "starof" -> [t EXCEPT !.x = rewriteUnsafe(st, @)]
      [] OTHER -> t

\* the first loop of rewriteCall: "yes" at the first parameter that needs a
\* check, "panic" if needsPointerCheck panics before that
RECURSIVE AnyCheck(_, _, _, _)
AnyCheck(st, ft, args, i) ==
    IF i > Len(ft.Params) THEN "no"
    ELSE LET r == needsPointerCheck(st, TypeAt(st, ft.Params[i]).Go, args[i])
         IN  IF r = "no" THEN AnyCheck(st, ft, args, i + 1) ELSE r

\* a body that validates every parameter
RECURSIVE CheckStmtsAll(_, _, _, _)
CheckStmtsAll(st, ft, args, i) ==
    IF i > Len(ft.Params) THEN <<>>
    ELSE <<ExprStmt(CallOf(Var("_cgoCheckPointer"),
                           checkAddrArgs(st, <<Var("_cgo" \o ToString(i - 1))>>,
                                         args[i])))>>
         \o CheckStmtsAll(st, ft, args, i + 1)

\* the statements of the function literal's body before the real call
RECURSIVE CheckStmts(_, _, _, _)
CheckStmts(st, ft, args, i) ==
    IF i > Len(ft.Params) THEN <<>>
    ELSE (IF needsPointerCheck(st, TypeAt(st, ft.Params[i]).Go, args[i]) = "yes"
             THEN <<ExprStmt(CallOf(Var("_cgoCheckPointer"),
                           checkAddrArgs(st, <<Var("_cgo" \o ToString(i - 1))>>,
                                         args[i])))>>
             ELSE <<>>)
         \o CheckStmts(st, ft, args, i + 1)

\* a widening that does not look at the context
WidenResultsAlways(res0, ctx) ==
    (IF res0 = <<>> THEN <<Var("_Ctype_void")>> ELSE res0) \o <<Var("error")>>

\* the loop over f.Ref: the results of the literal, given the Context of the
\* Ref whose Expr is the call's Fun
WidenResults(res0, ctx) ==
    IF ctx = "call2"
        THEN (IF res0 = <<>> THEN <<Var("_Ctype_void")>> ELSE res0)
                 \o <<Var("error")>>
        ELSE res0

\* rewriteCall on a call [name, args, ctx, fun]: [call, needsUnsafe, panic];
\* ctx is the Context of the Ref whose Expr is the call's Fun
rewriteCall(st, ft, call) ==
    LET n == Len(ft.Params)
        same == [call |-> call, needsUnsafe |-> FALSE, panic |-> FALSE]
        any == AnyCheck(st, ft, call.args, 1)
        pgo(i) == TypeAt(st, ft.Params[i]).Go
        later == \E i \in 1..n :
                   needsPointerCheck(st, pgo(i), call.args[i]) = "panic"
        params == [i \in 1..n |->
                     [name |-> "_cgo" \o ToString(i - 1),
                      type |-> rewriteUnsafe(st, pgo(i))]]
        res0 == IF ft.Result # <<>>
                   THEN <<rewriteUnsafe(st, TypeAt(st, ft.Result[1]).Go)>>
                   ELSE <<>>
        res == WidenResults(res0, call.ctx)
        unsafe == \/ \E i \in 1..n : params[i].type # pgo(i)
                  \/ ft.Result # <<>> /\ res0[1] # TypeAt(st, ft.Result[1]).Go
        fcall == CallOf(call.fun, [i \in 1..n |-> Var("_cgo" \o ToString(i - 1))])
        fbody == IF res = <<>> THEN ExprStmt(fcall) ELSE ReturnStmt(fcall)
        lit == [k |-> "funclit",
                params |-> params,
                results |-> res,
                body |-> Append(CheckStmts(st, ft, call.args, 1), fbody)]
    IN  IF Len(call.args) < n THEN same
        ELSE IF any = "no" THEN same
        ELSE IF any = "panic" \/ later THEN [same EXCEPT !.panic = TRUE]
        ELSE [call |-> [call EXCEPT !.fun = lit],
              needsUnsafe |-> unsafe, panic |-> FALSE]

(***************************************************************************)
(* Translate, first statements, and loadDefines.                           *)
(***************************************************************************)
loadDefines ==
    /\ pc = "loadDefines"
    /\ \E defs \in [NameKeys -> DefineVals] :
         Name' = [k \in NameKeys |->
                    [Name[k] EXCEPT !.C = cname(Name[k].Go), !.Define = defs[k]]]
    /\ pc' = "guessKinds"
    /\ UNCHANGED <<names, needType, sniff, completed, sawUnmatchedErrors,
                   reported, fatal, others>>

(***************************************************************************)
(* guessKinds, first loop: names settled without gcc.                      *)
(***************************************************************************)
\* the Name after the first loop's body
PreKind(n) ==
    IF n.Define # "" /\ ParseIntOK(n.Define)
        THEN [n EXCEPT !.Kind = "iconst", !.Const = "0x10"]
    ELSE IF n.Define # "" /\ IsStringLit(n.Define)
        THEN [n EXCEPT !.Kind = "sconst", !.Const = n.Define]
    ELSE LET n1 == IF n.Define # "" /\ isName(n.Define)
                       THEN [n EXCEPT !.C = n.Define] ELSE n
         IN  IF IsTagged(n1.C) THEN [n1 EXCEPT !.Kind = "type"] ELSE n1

\* what the first loop appends a key to: "const" (nothing), "needType", "names"
PreList(n) ==
    IF IsConst(PreKind(n)) THEN "const"
    ELSE IF PreKind(n).Kind = "type" THEN "needType"
    ELSE "names"

RECURSIVE SelectKeys(_, _, _)
SelectKeys(keys, nm, which) ==
    IF keys = <<>> THEN <<>>
    ELSE (IF PreList(nm[Head(keys)]) = which THEN <<Head(keys)>> ELSE <<>>)
             \o SelectKeys(Tail(keys), nm, which)

\* a Translate that calls loadDWARF whatever guessKinds returned
AfterGuessKindsAlways(nt) == "loadDWARF"

\* Translate after guessKinds returned the needs-type list nt: loadDWARF if the
\* list is not empty, else rewriteCalls
AfterGuessKinds(nt) == IF nt # <<>> THEN "loadDWARF" ELSE "rewriteCalls"

guessKindsStart ==
    /\ pc = "guessKinds"
    /\ Name' = [k \in DOMAIN Name |-> PreKind(Name[k])]
    /\ names' = SelectKeys(nameKeys, Name, "names")
    /\ needType' = SelectKeys(nameKeys, Name, "needType")
    /\ sniff' = [i \in 1..Len(names') |-> 0]
    /\ completed' = FALSE
    /\ sawUnmatchedErrors' = FALSE
    /\ IF names' = <<>>
          THEN pc' = AfterGuessKinds(needType')
          ELSE pc' = "gccErrors"
    /\ UNCHANGED <<reported, fatal, others>>

\* gccErrors returned nothing at all
guessKindsNoOutput ==
    /\ pc = "gccErrors"
    /\ fatal' = "produced no output"
    /\ pc' = "fatal"
    /\ UNCHANGED <<Name, names, needType, sniff, completed, sawUnmatchedErrors,
                   reported, others>>

(***************************************************************************)
(* guessKinds, the loop over the lines of stderr.  A line is what the loop *)
(* reads of it: whether it holds ": error:" or ": note:", the text before  *)
(* its first colon and the number strconv.Atoi finds after it (0 when the  *)
(* text is not a number).                                                  *)
(***************************************************************************)
LineFiles == ProbeTags \cup {"completed"}
\* the probe files at the line of each name, a probe file and another file at
\* a line of no name, and a line that is neither an error nor a note
Lines(n) ==
    [kind : {"error", "note"}, file : LineFiles, num : 1..n]
        \cup [kind : {"error", "note"}, file : {"not-type", "x.h"}, num : {0, n + 1}]
        \cup [kind : {"error", "note", "other"}, file : {"x.h"}, num : {1}]

\* a loop in which any error at the line of a name counts as the completed one
ParseLineAnyError(st, line) ==
    LET isError == line.kind = "error"
        isErrorNote == line.kind = "note" /\ st[3]
        i == line.num - 1
    IN  IF ~isError /\ ~isErrorNote THEN st
        ELSE IF i < 0 \/ i >= Len(st[1])
            THEN <<st[1], st[2], IF isError THEN TRUE ELSE st[3]>>
        ELSE IF line.file = "completed" THEN <<st[1], TRUE, FALSE>>
        ELSE IF line.file \in ProbeTags
            THEN <<[st[1] EXCEPT ![i + 1] = BitOr(@, TagBit(line.file))],
                   TRUE, FALSE>>
        ELSE <<st[1], st[2], IF isError THEN TRUE ELSE st[3]>>

\* a loop that takes every note for an error
ParseLineAnyNote(st, line) ==
    LET i == line.num - 1
    IN  IF line.kind = "other" THEN st
        ELSE IF i < 0 \/ i >= Len(st[1])
            THEN <<st[1], st[2], IF line.kind = "error" THEN TRUE ELSE st[3]>>
        ELSE IF line.file = "completed" THEN <<st[1], TRUE, FALSE>>
        ELSE IF line.file \in ProbeTags
            THEN <<[st[1] EXCEPT ![i + 1] = BitOr(@, TagBit(line.file))],
                   st[2], FALSE>>
        ELSE <<st[1], st[2], IF line.kind = "error" THEN TRUE ELSE st[3]>>

\* the state of the loop after one line: <<sniff, completed, sawUnmatchedErrors>>
ParseLine(st, line) ==
    LET isError == line.kind = "error"
        isErrorNote == line.kind = "note" /\ st[3]
        i == line.num - 1
    IN  IF ~isError /\ ~isErrorNote THEN st
        ELSE IF i < 0 \/ i >= Len(st[1])
            THEN <<st[1], st[2], IF isError THEN TRUE ELSE st[3]>>
        ELSE IF line.file = "completed" THEN <<st[1], TRUE, FALSE>>
        ELSE IF line.file \in ProbeTags
            THEN <<[st[1] EXCEPT ![i + 1] = BitOr(@, TagBit(line.file))],
                   st[2], FALSE>>
        ELSE <<st[1], st[2], IF isError THEN TRUE ELSE st[3]>>

guessKindsLine ==
    /\ pc \in {"gccErrors", "lines"}
    /\ \E line \in Lines(Len(names)) :
         LET st == ParseLine(<<sniff, completed, sawUnmatchedErrors>>, line)
         IN  /\ sniff' = st[1]
             /\ completed' = st[2]
             /\ sawUnmatchedErrors' = st[3]
    /\ pc' = "lines"
    /\ UNCHANGED <<Name, names, needType, reported, fatal, others>>

(***************************************************************************)
(* guessKinds, after the loop: the completed check and the decoding.       *)
(***************************************************************************)
\* KindOfMask without the &^ notSignedIntConst
KindOfMaskNoClear(m) ==
    CASE m = notStrLiteral + notType ->
             IF HasBit(m, notSignedIntConst) THEN "uconst" ELSE "iconst"
      [] m = notIntConst + notStrLiteral + notType -> "fconst"
      [] m = notIntConst + notNumConst + notType -> "sconst"
      [] m = notIntConst + notNumConst + notStrLiteral -> "type"
      [] m = notIntConst + notNumConst + notStrLiteral + notType -> "not-type"
      [] OTHER -> ""

\* the switch on sniff[i] &^ notSignedIntConst: the Kind, "" for the default case
KindOfMask(m) ==
    LET v == BitAndNot(m, notSignedIntConst)
    IN  CASE v = notStrLiteral + notType ->
                 IF HasBit(m, notSignedIntConst) THEN "uconst" ELSE "iconst"
          [] v = notIntConst + notStrLiteral + notType -> "fconst"
          [] v = notIntConst + notNumConst + notType -> "sconst"
          [] v = notIntConst + notNumConst + notStrLiteral -> "type"
          [] v = notIntConst + notNumConst + notStrLiteral + notType -> "not-type"
          [] OTHER -> ""

Undetermined == "could not determine kind of name"

\* a decoding loop that stops reporting at the first name it cannot decode
UndeterminedFirst(bad) ==
    IF bad = {} THEN {}
    ELSE {<<Undetermined, names[CHOOSE i \in bad : \A j \in bad : i <= j]>>}

\* the error_ calls of the decoding loop: one for each name, of the set bad of
\* indexes, whose mask falls to the default case
UndeterminedErrors(bad) == {<<Undetermined, names[i]>> : i \in bad}

guessKindsEnd ==
    /\ pc = "lines"
    /\ IF ~completed
          THEN /\ fatal' = "did not produce error at completed:1"
               /\ pc' = "fatal"
               /\ UNCHANGED <<Name, needType, reported>>
          ELSE LET bad == {i \in DOMAIN names : KindOfMask(sniff[i]) = ""}
                   idx(k) == CHOOSE i \in DOMAIN names : names[i] = k
               IN  /\ Name' = [k \in DOMAIN Name |->
                                 IF k \in Range(names) /\ idx(k) \notin bad
                                    THEN [Name[k] EXCEPT
                                            !.Kind = KindOfMask(sniff[idx(k)])]
                                    ELSE Name[k]]
                   /\ reported' = reported \cup UndeterminedErrors(bad)
                   /\ IF reported' # {}
                         THEN /\ fatal' = "unresolved names"
                              /\ pc' = "fatal"
                              /\ UNCHANGED needType
                         ELSE /\ needType' = needType \o names
                              /\ pc' = AfterGuessKinds(needType')
                              /\ UNCHANGED fatal
    /\ UNCHANGED <<names, sniff, completed, sawUnmatchedErrors, others>>


(***************************************************************************)
(* loadDWARF.                                                              *)
(***************************************************************************)
\* the foreign types gcc's debug information can hold for a name of a Kind
\* (Nil: no __cgo__ variable was found for it)
TypesFor(kind) ==
    IF kind \in {"iconst", "uconst", "fconst", "sconst"} THEN {Nil, "int"}
    ELSE IF kind = "type" THEN {Nil, "int", "SP", "f_pSP"}
    ELSE {Nil, "int", "f_pSP", "f_void"}

\* the text loadDWARF formats for a constant of a Kind
ConstText(kind) ==
    CASE kind \in {"iconst", "uconst"} -> "0x10"
      [] kind = "fconst" -> "1.000000"
      [] kind = "sconst" -> "\"s\""
      [] OTHER -> ""

RECURSIVE LoadLoop(_, _, _, _, _)
\* n.Kind = "func"; n.FuncType = conv.FuncType(f, pos), r, then FinishType
LoadedFunc(r, nm, list, types, i) ==
    IF r.st.fatal # "" THEN [st |-> r.st, Name |-> nm]
    ELSE LoadLoop(FinishType(r.st),
                  [nm EXCEPT ![list[i]] =
                     [@ EXCEPT !.Kind = "func", !.FuncType = <<r.ft>>]],
                  list, types, i + 1)

\* LoadedType that makes a variable of the name
LoadedTypeAsVar(s1, nm, list, types, i) ==
    IF s1.fatal # "" THEN [st |-> s1, Name |-> nm]
    ELSE LoadLoop(FinishType(s1),
                  [nm EXCEPT ![list[i]] =
                     [@ EXCEPT !.Kind = "var", !.Type = <<Shared(types[i])>>]],
                  list, types, i + 1)

\* n.Type = conv.Type(types[i], pos), s1, the constant's text, then FinishType
LoadedType(s1, nm, list, types, i) ==
    IF s1.fatal # "" THEN [st |-> s1, Name |-> nm]
    ELSE LoadLoop(FinishType(s1),
                  [nm EXCEPT ![list[i]] =
                     [@ EXCEPT !.Type = <<Shared(types[i])>>,
                               !.Const = IF IsConst(nm[list[i]])
                                            THEN ConstText(nm[list[i]].Kind)
                                            ELSE @]],
                  list, types, i + 1)

\* the loop "Record types and typedef information" from names[i] on
LoadLoop(st, nm, list, types, i) ==
    IF st.fatal # "" \/ i > Len(list) THEN [st |-> st, Name |-> nm]
    ELSE IF types[i] = Nil THEN LoadLoop(st, nm, list, types, i + 1)
    ELSE IF nm[list[i]].Kind # "type" /\ dw[types[i]].kind = "func"
        THEN LoadedFunc(FuncType(st, types[i]), nm, list, types, i)
    ELSE LoadedType(TypeConv(st, types[i]), nm, list, types, i)

loadDWARF ==
    /\ pc = "loadDWARF"
    /\ \E types \in [DOMAIN needType -> {Nil, "int", "SP", "f_pSP", "f_void"}] :
         /\ \A i \in DOMAIN needType :
              types[i] \in TypesFor(Name[needType[i]].Kind)
         /\ \E r \in {LoadLoop(NewConv, Name, needType, types, 1)} :
                /\ conv' = r.st
                /\ Name' = r.Name
                /\ fatal' = r.st.fatal
                /\ pc' = IF r.st.fatal # "" THEN "fatal" ELSE "rewriteCalls"
    /\ names' = <<>>
    /\ sniff' = <<>>
    /\ completed' = FALSE
    /\ sawUnmatchedErrors' = FALSE
    /\ UNCHANGED <<needType, reported, dw, godefs, Ref, Calls, needsUnsafe,
                   last, steps, gcc>>

(***************************************************************************)
(* rewriteCalls.  f.Ref and f.Calls are read here for the first time: one  *)
(* Ref per name, and a Call for each Ref in a call context.                *)
(***************************************************************************)
mangleName(n) == [n EXCEPT !.Mangle = "_C" \o n.Kind \o "_" \o n.Go]

ArgLists == {<<Var("nil")>>, <<Var("v")>>, <<>>}

RefsOf(k) ==
    {[name |-> k, ctx |-> c, args |-> <<>>, expr |-> NoExpr, inLit |-> FALSE] :
         c \in {"expr", "type", "selector"}}
    \cup {[name |-> k, ctx |-> "call", args |-> a, expr |-> NoExpr,
           inLit |-> FALSE] : a \in ArgLists}
    \cup {[name |-> k, ctx |-> "call2", args |-> <<Var("v")>>, expr |-> NoExpr,
           inLit |-> FALSE]}

\* f.Calls: the calls among the Refs, each with its Fun
CallsOf(refs) ==
    LET RECURSIVE Sel(_)
        Sel(i) == IF i > Len(refs) THEN <<>>
                  ELSE (IF refs[i].ctx \in {"call", "call2"}
                           THEN <<[name |-> refs[i].name, args |-> refs[i].args,
                                   ctx |-> refs[i].ctx, ref |-> i,
                                   fun |-> Select(Var("C"), refs[i].name)]>>
                           ELSE <<>>) \o Sel(i + 1)
    IN  Sel(1)

\* Skipped that lets a call of C.malloc through
SkippedByKind(call) == Name[call.name].Kind # "func"
\* the calls the loop of rewriteCalls passes over: C.malloc, and a name that
\* is not a function
Skipped(call) == call.name = "malloc" \/ Name[call.name].Kind # "func"

RECURSIVE CallsLoop(_, _)
\* the loop's body after p.rewriteCall returned r
CallRewritten(acc, i, r) ==
    CallsLoop([Calls |-> [acc.Calls EXCEPT ![i] = r.call],
               Ref |-> [acc.Ref EXCEPT ![acc.Calls[i].ref].inLit =
                           r.call.fun.k = "funclit"],
               needsUnsafe |-> acc.needsUnsafe \/ r.needsUnsafe,
               panic |-> r.panic], i + 1)

\* the loop of rewriteCalls from call i on: [Calls, Ref, needsUnsafe, panic]
CallsLoop(acc, i) ==
    IF acc.panic \/ i > Len(acc.Calls) THEN acc
    ELSE IF Skipped(acc.Calls[i]) THEN CallsLoop(acc, i + 1)
    ELSE CallRewritten(acc, i,
                       rewriteCall(conv, Name[acc.Calls[i].name].FuncType[1],
                                   acc.Calls[i]))

rewriteCalls ==
    /\ pc = "rewriteCalls"
    /\ \E refs \in [DOMAIN nameKeys -> UNION {RefsOf(k) : k \in NameKeys}] :
         /\ \A i \in DOMAIN nameKeys : refs[i].name = nameKeys[i]
         /\ \E r \in {CallsLoop([Calls |-> CallsOf(refs), Ref |-> refs,
                                 needsUnsafe |-> FALSE, panic |-> FALSE], 1)} :
                /\ Calls' = r.Calls
                /\ Ref' = r.Ref
                /\ needsUnsafe' = r.needsUnsafe
                /\ fatal' = IF r.panic THEN "panic: nil pointer dereference"
                            ELSE fatal
                /\ pc' = IF r.panic THEN "fatal" ELSE "rewriteRef"
    /\ UNCHANGED <<Name, names, needType, sniff, completed, sawUnmatchedErrors,
                   reported, conv, dw, godefs, last, steps, gcc>>

(***************************************************************************)
(* rewriteRef.                                                             *)
(***************************************************************************)
\* builtinDefs: the names cgo itself defines
builtinDefs == {"GoString", "GoStringN", "GoBytes", "CString", "CBytes",
                "_CMalloc"}

\* the Type of an fpvar Name
FpType ==
    [Size |-> ptrSize, Align |-> ptrSize, Go |-> IdentAt("unsafe.Pointer", "new"),
     C |-> TR("void*", Nil), Typedef |-> "", EnumValues |-> FALSE]

\* the first loop of rewriteRef on one Name
AssignMangle(n) ==
    LET n1 == IF n.Kind = "not-type" THEN [n EXCEPT !.Kind = "var"] ELSE n
    IN  IF n1.Mangle = "" THEN mangleName(n1) ELSE n1

\* the body of the loop over f.Ref for Ref i; acc is [Name, Ref, reported,
\* functions]
RefStep(acc, i) ==
    LET r == acc.Ref[i]
        n == acc.Name[r.name]
        rep0 == IF IsConst(n) /\ n.Const = ""
                   THEN acc.reported \cup
                            {<<"unable to find value of constant", n.Go>>}
                   ELSE acc.reported
        def == IdentAt(n.Mangle, "new")
        tgo == TypeAt(conv, n.Type[1]).Go
        Out(ctx, name, expr, errs, nm, fns) ==
            [ctx |-> ctx, name |-> name, expr |-> expr,
             reported |-> rep0 \cup errs, Name |-> nm, functions |-> fns]
        Same(expr, errs) == Out(r.ctx, r.name, expr, errs, acc.Name, acc.functions)
        called == [acc.functions EXCEPT ![n.Go] = TRUE]
        key2 == "2" \o n.Go
        n2 == IF key2 \in DOMAIN acc.Name THEN acc.Name[key2]
              ELSE [n EXCEPT !.AddError = TRUE, !.Mangle = "_C2func_" \o n.Go]
        fpName == "fp_" \o n.Go
        fp == IF fpName \in DOMAIN acc.Name THEN acc.Name[fpName]
              ELSE mangleName([NewName(fpName) EXCEPT
                                 !.C = n.C, !.Kind = "fpvar",
                                 !.Type = <<Owned(FpType)>>])
        o == CASE r.ctx \in {"call", "call2"} ->
                   IF n.Kind # "func"
                      THEN IF n.Kind = "type"
                              THEN IF n.Type = <<>>
                                      THEN Out("type", r.name, def,
                                               {<<"invalid conversion", n.Go>>},
                                               acc.Name, acc.functions)
                                      ELSE Out("type", r.name, tgo, {},
                                               acc.Name, acc.functions)
                              ELSE Same(def, {<<"call of non-function", n.Go>>})
                   ELSE IF r.ctx = "call2"
                      THEN IF n.Go = "_CMalloc"
                              THEN Out(r.ctx, r.name, def,
                                       {<<"no two-result form for C.malloc", n.Go>>},
                                       acc.Name, called)
                              ELSE Out(r.ctx, key2, IdentAt(n2.Mangle, "new"), {},
                                       (key2 :> n2) @@ acc.Name, called)
                   ELSE Out(r.ctx, r.name, def, {}, acc.Name, called)
              [] r.ctx = "expr" ->
                   IF n.Kind = "func"
                      THEN Out(r.ctx, fpName,
                               CallOf(Var("_Cgo_ptr"), <<IdentAt(fp.Mangle, "new")>>),
                               IF n.C \in builtinDefs
                                  THEN {<<"use of builtin not in function call", n.C>>}
                                  ELSE {},
                               (fpName :> fp) @@ acc.Name, acc.functions)
                   ELSE IF n.Kind = "type"
                      THEN IF n.Type = <<>>
                              THEN Same(def, {<<"expression: undefined C type", n.Go>>})
                              ELSE Same(tgo, {})
                   ELSE IF n.Kind = "var" THEN Same(StarOf(def), {})
                   ELSE Same(def, {})
              [] r.ctx = "selector" ->
                   IF n.Kind = "var" THEN Same(StarOf(def), {})
                   ELSE Same(def, {<<"only C variables allowed in selector expression",
                                     n.Go>>})
              [] r.ctx = "type" ->
                   IF n.Kind # "type"
                      THEN Same(def, {<<"expression used as type", n.Go>>})
                   ELSE IF n.Type = <<>>
                      THEN Same(def, {<<"type: undefined C type", n.Go>>})
                   ELSE Same(tgo, {})
              [] OTHER ->
                   IF n.Kind = "func" THEN Same(def, {<<"must call", n.Go>>})
                   ELSE Same(def, {})
        rn == o.Name[o.name]
        e1 == IF godefs /\ o.expr.k = "ident"
                 THEN IF o.expr.name = rn.Mangle /\ rn.Const # ""
                         THEN IdentAt(rn.Const, "new")
                      ELSE IF o.expr.name \in DOMAIN conv.typedef
                         THEN conv.typedef[o.expr.name].Go
                      ELSE o.expr
                 ELSE o.expr
        e2 == IF e1.k = "ident" THEN IdentAt(e1.name, "new") ELSE e1
    IN  [Name |-> o.Name,
         Ref |-> [acc.Ref EXCEPT ![i] = [r EXCEPT !.ctx = o.ctx, !.name = o.name,
                                                  !.expr = e2]],
         reported |-> o.reported,
         functions |-> o.functions]

RECURSIVE RefLoop(_, _)
RefLoop(acc, i) ==
    IF i > Len(acc.Ref) THEN acc ELSE RefLoop(RefStep(acc, i), i + 1)

rewriteRef ==
    /\ pc = "rewriteRef"
    /\ LET nm == [k \in DOMAIN Name |-> AssignMangle(Name[k])]
           fns == [g \in {nm[k].Go : k \in {k \in DOMAIN nm : nm[k].Kind = "func"}}
                     |-> FALSE]
           r == RefLoop([Name |-> nm, Ref |-> Ref, reported |-> reported,
                         functions |-> fns], 1)
           unused == {g \in DOMAIN r.functions : ~r.functions[g]}
       IN  /\ Name' = [k \in DOMAIN r.Name \ unused |-> r.Name[k]]
           /\ Ref' = r.Ref
           /\ reported' = r.reported
    /\ pc' = "done"
    /\ UNCHANGED <<names, needType, sniff, completed, sawUnmatchedErrors, fatal,
                   conv, dw, godefs, Calls, needsUnsafe, last, steps, gcc>>

(***************************************************************************)
(* The pipeline: Translate on one file.                                    *)
(***************************************************************************)
NoLast == [op |-> "none"]

\* no object read: gccDebug is not under way
NoObject == [format |-> "none"]

Init ==
    /\ pc = "loadDefines"
    /\ Name = [k \in NameKeys |-> NewName(k)]
    /\ names = <<>>
    /\ needType = <<>>
    /\ sniff = <<>>
    /\ completed = FALSE
    /\ sawUnmatchedErrors = FALSE
    /\ reported = {}
    /\ fatal = ""
    /\ conv = NewConv
    /\ dw = Universe
    /\ godefs = FALSE
    /\ Ref = <<>>
    /\ Calls = <<>>
    /\ needsUnsafe = FALSE
    /\ last = NoLast
    /\ steps = 0
    /\ gcc = NoObject

Next ==
    \/ loadDefines
    \/ guessKindsStart
    \/ guessKindsNoOutput
    \/ guessKindsLine
    \/ guessKindsEnd
    \/ loadDWARF
    \/ rewriteCalls
    \/ rewriteRef

Spec == Init /\ [][Next]_vars

\* the pipeline's variables while a typeConv is driven directly
Idle ==
    /\ Name = EmptyMap
    /\ names = <<>>
    /\ needType = <<>>
    /\ sniff = <<>>
    /\ completed = FALSE
    /\ sawUnmatchedErrors = FALSE
    /\ reported = {}
    /\ fatal = ""
    /\ Ref = <<>>
    /\ Calls = <<>>
    /\ needsUnsafe = FALSE
    /\ gcc = NoObject

pipeVars == <<Name, names, needType, sniff, completed, sawUnmatchedErrors,
              reported, fatal, Ref, Calls, needsUnsafe, gcc>>

(***************************************************************************)
(* A typeConv under any sequence of Type and FinishType calls.             *)
(***************************************************************************)
MaxCalls == 4

ConvRoots == {"S", "pS", "pS2", "A", "pB2", "pU", "int"}

TypeCall(d) ==
    /\ pc = "conv"
    /\ steps < MaxCalls
    /\ conv.fatal = ""
    /\ conv' = TypeConv(conv, d)
    /\ last' = [op |-> "Type", d |-> d, hit |-> Cached(conv, d)]
    /\ steps' = steps + 1
    /\ UNCHANGED <<pc, pipeVars, dw, godefs>>

FinishTypeCall ==
    /\ pc = "conv"
    /\ steps < MaxCalls
    /\ conv.fatal = ""
    /\ conv' = FinishType(conv)
    /\ last' = [op |-> "FinishType",
                 d |-> IF last.op = "Type" THEN last.d ELSE Nil]
    /\ steps' = steps + 1
    /\ UNCHANGED <<pc, pipeVars, dw, godefs>>

InitConv ==
    /\ pc = "conv"
    /\ Idle
    /\ conv = NewConv
    /\ dw = Universe
    /\ godefs = FALSE
    /\ last = NoLast
    /\ steps = 0

NextConv ==
    \/ \E d \in ConvRoots : TypeCall(d)
    \/ FinishTypeCall

SpecConv == InitConv /\ [][NextConv]_vars

(***************************************************************************)
(* Functions loaded as loadDWARF loads them, and calls to them rewritten.  *)
(***************************************************************************)
MaxLoads == 2

FuncRoots == {"f_int", "f_pint", "f_pvoid", "f_pS", "f_pSI", "f_pSP", "f_pSU",
              "f_pP", "f_pU", "f_pTU", "f_arr", "f_2", "f_pp"}
TypeRoots == {"S"}

\* nil, v, &a[i], &s.field, &g()[i], unsafe.Pointer(&v), g(&v)
ArgShapes ==
    {Var("nil"), Var("v"), AddrOf(Index(Var("a"))),
     AddrOf(Select(Var("s"), "field")),
     AddrOf(Index(CallOf(Var("g"), <<>>))),
     CallOf(Select(Var("unsafe"), "Pointer"), <<AddrOf(Var("v"))>>),
     CallOf(Var("g"), <<AddrOf(Var("v"))>>)}

\* the argument lists of a call of a function of n parameters: one argument
\* per parameter, one too many, or one too few
CallArgs(n) ==
    [1..n -> ArgShapes]
    \cup {[i \in 1..(n + 1) |-> Var("v")], [i \in 1..(n - 1) |-> Var("v")]}

\* the body of loadDWARF's loop for a name whose type is function node d
LoadFunc(d) ==
    /\ pc = "call"
    /\ steps < MaxLoads
    /\ conv.fatal = ""
    /\ d \notin DOMAIN Name
    /\ LET r == FuncType(conv, d)
       IN  /\ conv' = FinishType(r.st)
           /\ Name' = (d :> [NewName(d) EXCEPT !.C = d, !.Kind = "func",
                                              !.FuncType = <<r.ft>>]) @@ Name
    /\ last' = [op |-> "load", d |-> d]
    /\ steps' = steps + 1
    /\ UNCHANGED <<pc, names, needType, sniff, completed, sawUnmatchedErrors,
                   reported, fatal, Ref, Calls, needsUnsafe, dw, godefs, gcc>>

\* the body of loadDWARF's loop for a name whose type is node d
LoadType(d) ==
    /\ pc = "call"
    /\ steps < MaxLoads
    /\ conv.fatal = ""
    /\ d \notin DOMAIN Name
    /\ conv' = FinishType(TypeConv(conv, d))
    /\ Name' = (d :> [NewName(d) EXCEPT !.C = d, !.Kind = "type",
                                       !.Type = <<Shared(d)>>]) @@ Name
    /\ last' = [op |-> "load", d |-> d]
    /\ steps' = steps + 1
    /\ UNCHANGED <<pc, names, needType, sniff, completed, sawUnmatchedErrors,
                   reported, fatal, Ref, Calls, needsUnsafe, dw, godefs, gcc>>

\* rewriteCall on a call of a loaded function.  rewriteCall reads the typeConv
\* and writes only its own call, so the calls of a file do not affect each
\* other: one call is followed from each state the loads reach.
CallStep(g, ctx) ==
    /\ pc = "call"
    /\ conv.fatal = ""
    /\ last.op # "rewriteCall"
    /\ g \in DOMAIN Name
    /\ Name[g].Kind = "func"
    /\ \E args \in CallArgs(Len(dw[g].params)) :
         LET call == [name |-> g, args |-> args, ctx |-> ctx, ref |-> 1,
                      fun |-> Select(Var("C"), g)]
         IN  last' = [op |-> "rewriteCall", d |-> g, args |-> args,
                      out |-> rewriteCall(conv, Name[g].FuncType[1], call)]
    /\ UNCHANGED <<pc, pipeVars, conv, dw, godefs, steps>>

InitCall ==
    /\ pc = "call"
    /\ Idle
    /\ conv = NewConv
    /\ dw = Universe
    /\ godefs = FALSE
    /\ last = NoLast
    /\ steps = 0

NextCall ==
    \/ \E d \in FuncRoots : LoadFunc(d)
    \/ \E d \in TypeRoots : LoadType(d)
    \/ \E g \in FuncRoots, ctx \in {"call", "call2"} : CallStep(g, ctx)

SpecCall == InitCall /\ [][NextCall]_vars

(***************************************************************************)
(* typeConv.Struct on one struct drawn from bounded sets.                  *)
(***************************************************************************)
MaxFields == 3

FieldOffsets == {0, 4, 10}
ByteSizes == {4, 8, 12, 16}
\* a field's type and bit size
FieldShapes == {<<"int", 0>>, <<"short", 0>>, <<"zarr", 0>>, <<"int", 16>>,
                <<"int", 3>>}

FieldName(i) == "f" \o ToString(i - 1)

\* the structs of n fields, offsets in declaration order
StructsOf(n) ==
    {StructT("struct", "X", size,
             [i \in 1..n |-> DField(FieldName(i), sh[i][1], off[i], sh[i][2])]) :
       size \in ByteSizes,
       sh \in [1..n -> FieldShapes],
       off \in {o \in [1..n -> FieldOffsets] :
                   \A i \in 1..n : i < n => o[i] <= o[i + 1]}}

InitStruct ==
    /\ pc = "struct"
    /\ Idle
    /\ conv = NewConv
    /\ godefs \in BOOLEAN
    /\ \E n \in 0..MaxFields : \E x \in StructsOf(n) : dw = ("X" :> x) @@ Universe
    /\ last = NoLast
    /\ steps = 0

\* Type on the struct, and what its call of Struct returned
StructType ==
    /\ pc = "struct"
    /\ steps = 0
    /\ conv' = TypeConv(conv, "X")
    /\ LET s0 == [conv EXCEPT !.m = ("X" :> NewType("X")) @@ @]
           r == Struct(Published(s0, "X"), "X")
       IN  last' = [op |-> "Struct", fld |-> r.fld, sizes |-> r.sizes,
                    src |-> r.src, align |-> r.align, fatal |-> r.st.fatal]
    /\ steps' = 1
    /\ UNCHANGED <<pc, pipeVars, dw, godefs>>

NextStruct == StructType

SpecStruct == InitStruct /\ [][NextStruct]_vars

(***************************************************************************)
(* typeConv.Type on one integer base type drawn from bounded sets.         *)
(***************************************************************************)
PrimKinds == {"int", "uint"}
PrimNames == {"", "int", "long int", "unsigned int", "__int128"}
PrimSizes == {1, 2, 3, 4, 8, 16}
PrimBits == {0, 3}

InitPrim ==
    /\ pc = "prim"
    /\ Idle
    /\ conv = NewConv
    /\ godefs \in BOOLEAN
    /\ \E kind \in PrimKinds, name \in PrimNames, size \in PrimSizes,
          bits \in PrimBits :
         dw = ("X" :> [Base(kind, name, size) EXCEPT !.bitsize = bits]) @@ Universe
    /\ last = NoLast
    /\ steps = 0

PrimType ==
    /\ pc = "prim"
    /\ steps = 0
    /\ conv' = TypeConv(conv, "X")
    /\ last' = [op |-> "Type", d |-> "X"]
    /\ steps' = 1
    /\ UNCHANGED <<pc, pipeVars, dw, godefs>>

NextPrim == PrimType

SpecPrim == InitPrim /\ [][NextPrim]_vars

(***************************************************************************)
(* guessKinds on one probed name, with the lines of stderr it has read     *)
(* kept in gcc.read.                                                       *)
(***************************************************************************)
\* how many lines stderr holds at most
MaxLines == 4

\* errors and notes at two probe files and at completed, at the line of the
\* name; an error and a note at another file, an error at a probe file at a
\* line of no name, and a line that is neither an error nor a note
StreamLines ==
    [kind : {"error", "note"}, file : {"not-type", "not-str-lit", "completed"},
     num : {1}]
        \cup [kind : {"error", "note", "other"}, file : {"x.h"}, num : {1}]
        \cup [kind : {"error"}, file : {"not-type"}, num : {2}]

\* the loop over the lines of stderr, one line
guessKindsRead ==
    /\ pc \in {"gccErrors", "lines"}
    /\ Len(gcc.read) < MaxLines
    /\ \E line \in StreamLines :
         /\ \E st \in {ParseLine(<<sniff, completed, sawUnmatchedErrors>>, line)} :
              /\ sniff' = st[1]
              /\ completed' = st[2]
              /\ sawUnmatchedErrors' = st[3]
         /\ gcc' = [gcc EXCEPT !.read = Append(@, line)]
    /\ pc' = "lines"
    /\ UNCHANGED <<Name, names, needType, reported, fatal, conv, dw, godefs, Ref,
                   Calls, needsUnsafe, last, steps>>

\* guessKinds after its first loop, for a file that names C.x and C.struct_s
\* and has no #define for either
InitLines ==
    /\ pc = "gccErrors"
    /\ Name = [k \in NameKeys |-> PreKind([NewName(k) EXCEPT !.C = cname(k)])]
    /\ names = <<"x">>
    /\ needType = <<"struct_s">>
    /\ sniff = <<0>>
    /\ completed = FALSE
    /\ sawUnmatchedErrors = FALSE
    /\ reported = {}
    /\ fatal = ""
    /\ conv = NewConv
    /\ dw = Universe
    /\ godefs = FALSE
    /\ Ref = <<>>
    /\ Calls = <<>>
    /\ needsUnsafe = FALSE
    /\ last = NoLast
    /\ steps = 0
    /\ gcc = [format |-> "text", read |-> <<>>]

NextLines ==
    \/ guessKindsNoOutput
    \/ guessKindsRead
    \/ guessKindsEnd

SpecLines == InitLines /\ [][NextLines]_vars

(***************************************************************************)
(* gccDebug: reading the object gcc wrote.  pc names the container format  *)
(* about to be tried, then "symbols" while the symbol table is scanned.    *)
(* The outcome of each Open and DWARF call, and each symbol of the table,  *)
(* are inputs.  A symbol's section lookup either finds its data or not;    *)
(* a string symbol's data is the section's bytes from the symbol's value   *)
(* on; a length symbol's data is a uint64, kept as its value when it fits  *)
(* an int and as "big" when it is greater than MaxInt.                     *)
(***************************************************************************)
\* how many symbols a symbol table holds at most
MaxSyms == 3
\* the largest nnames gccDebug is called with
MaxNames == 2

\* the container formats, in the order gccDebug tries them
FormatOrderElfFirst == <<"elf", "macho", "pe">>

FormatOrder == <<"macho", "elf", "pe">>

\* the section bytes a __cgodebug_str__ symbol points at
Blobs == {<<0>>, <<97, 0>>, <<97, 98, 0>>}

\* the values a __cgodebug_strlen__ symbol holds
Strlens == 0..3

\* the symbols of the object: str and strlen symbols of the indexes below
\* nnames, the ints and floats symbols, and any other symbol
Symbols(nnames) ==
    {[kind |-> "str", n |-> n, found |-> f, data |-> b, len |-> 0, big |-> FALSE] :
        n \in 0..(nnames - 1), f \in BOOLEAN, b \in Blobs}
    \cup {[kind |-> "strlen", n |-> n, found |-> f, data |-> <<>>, len |-> l, big |-> FALSE] :
        n \in 0..(nnames - 1), f \in BOOLEAN, l \in Strlens}
    \cup {[kind |-> "strlen", n |-> n, found |-> TRUE, data |-> <<>>, len |-> 0, big |-> TRUE] :
        n \in 0..(nnames - 1)}
    \cup {[kind |-> k, n |-> 0, found |-> f, data |-> <<>>, len |-> 0, big |-> FALSE] :
        k \in {"ints", "floats", "other"}, f \in BOOLEAN}

\* gccDebug's locals before the first Open
NewDebug(nnames) ==
    [format |-> "none", tried |-> <<>>, nnames |-> nnames, scanned |-> 0,
     ints |-> FALSE, floats |-> FALSE,
     strdata |-> EmptyMap, strlens |-> EmptyMap,
     strs |-> [n \in 0..(nnames - 1) |-> <<>>], built |-> FALSE]

\* one Open: the format opens the object or not, its DWARF loads or not, and
\* (Mach-O, ELF) its symbol table is there or not
gccDebugOpen ==
    /\ pc \in Range(FormatOrder)
    /\ gcc.format = "none"
    /\ \E opens, dwarf, symtab \in BOOLEAN :
         LET tried == Append(gcc.tried, pc)
         IN  IF ~opens
             THEN /\ gcc' = [gcc EXCEPT !.tried = tried]
                  /\ IF Len(tried) < Len(FormatOrder)
                     THEN pc' = FormatOrder[Len(tried) + 1] /\ UNCHANGED fatal
                     ELSE /\ pc' = "fatal"
                          /\ fatal' = "cannot parse gcc output as ELF, Mach-O, PE object"
             ELSE /\ gcc' = [gcc EXCEPT !.tried = tried, !.format = pc]
                  /\ IF ~dwarf
                     THEN pc' = "fatal" /\ fatal' = "cannot load DWARF output"
                     ELSE /\ pc' = IF pc = "pe" \/ symtab THEN "symbols" ELSE "return"
                          /\ UNCHANGED fatal
    /\ UNCHANGED <<Name, names, needType, sniff, completed, sawUnmatchedErrors,
                   reported, conv, dw, godefs, Ref, Calls, needsUnsafe, last, steps>>

\* the body of the loop over the symbols
ScanSymbol(g, s) ==
    LET h == [g EXCEPT !.scanned = @ + 1]
    IN  CASE ~s.found -> h
          [] s.kind = "ints" -> [h EXCEPT !.ints = TRUE]
          [] s.kind = "floats" -> [h EXCEPT !.floats = TRUE]
          [] s.kind = "str" -> [h EXCEPT !.strdata = (s.n :> s.data) @@ @]
          [] s.kind = "strlen" /\ ~s.big -> [h EXCEPT !.strlens = (s.n :> s.len) @@ @]
          [] OTHER -> h

gccDebugSymbol ==
    /\ pc = "symbols"
    /\ gcc.scanned < MaxSyms
    /\ \E s \in Symbols(gcc.nnames) :
         /\ gcc' = ScanSymbol(gcc, s)
         /\ IF s.kind = "strlen" /\ s.found /\ s.big
            THEN pc' = "fatal" /\ fatal' = "string literal too big"
            ELSE UNCHANGED <<pc, fatal>>
    /\ UNCHANGED <<Name, names, needType, sniff, completed, sawUnmatchedErrors,
                   reported, conv, dw, godefs, Ref, Calls, needsUnsafe, last, steps>>

\* strdata[n], the empty string when the map has no entry
DataAt(g, n) == IF n \in DOMAIN g.strdata THEN g.strdata[n] ELSE <<>>

\* buildStrings' test of one entry
InvalidLiteralStrict(data, strlen) == Len(data) < strlen

InvalidLiteral(data, strlen) == Len(data) <= strlen

\* strs[n] = string(data[:strlen])
BuiltString(g, n) == SubSeq(DataAt(g, n), 1, g.strlens[n])

\* buildStrings, run when the symbols are exhausted.  The range over strlens
\* has no fixed order: when an entry is invalid, any of the valid ones may
\* have been stored before the run ended.
gccDebugBuildStrings ==
    /\ pc = "symbols"
    /\ LET invalid == {n \in DOMAIN gcc.strlens :
                          InvalidLiteral(DataAt(gcc, n), gcc.strlens[n])}
           valid == DOMAIN gcc.strlens \ invalid
       IN  IF invalid # {}
           THEN /\ \E stored \in SUBSET valid :
                     gcc' = [gcc EXCEPT !.built = TRUE,
                                        !.strs = [n \in DOMAIN @ |->
                                                    IF n \in stored THEN BuiltString(gcc, n)
                                                    ELSE @[n]]]
                /\ pc' = "fatal"
                /\ fatal' = "invalid string literal"
           ELSE /\ gcc' = [gcc EXCEPT !.built = TRUE,
                                      !.strs = [n \in DOMAIN @ |->
                                                  IF n \in valid THEN BuiltString(gcc, n)
                                                  ELSE @[n]]]
                /\ pc' = "return"
                /\ UNCHANGED fatal
    /\ UNCHANGED <<Name, names, needType, sniff, completed, sawUnmatchedErrors,
                   reported, conv, dw, godefs, Ref, Calls, needsUnsafe, last, steps>>

InitDebug ==
    /\ pc = FormatOrder[1]
    /\ Name = EmptyMap
    /\ names = <<>>
    /\ needType = <<>>
    /\ sniff = <<>>
    /\ completed = FALSE
    /\ sawUnmatchedErrors = FALSE
    /\ reported = {}
    /\ fatal = ""
    /\ Ref = <<>>
    /\ Calls = <<>>
    /\ needsUnsafe = FALSE
    /\ conv = NewConv
    /\ dw = Universe
    /\ godefs = FALSE
    /\ last = NoLast
    /\ steps = 0
    /\ \E nnames \in 0..MaxNames : gcc = NewDebug(nnames)

NextDebug ==
    \/ gccDebugOpen
    \/ gccDebugSymbol
    \/ gccDebugBuildStrings

SpecDebug == InitDebug /\ [][NextDebug]_vars

(***************************************************************************)
(* C1: the Kind guessKinds decodes from a mask.                             *)
(***************************************************************************)
\* the probe tags whose bit is set in a mask
Bits(m) == {t \in ProbeTags : HasBit(m, TagBit(t))}

\* guessKinds has just decoded the masks (it returned, or failed on them)
Decoded ==
    /\ names # <<>>
    /\ \/ pc = "loadDWARF"
       \/ pc = "fatal" /\ fatal = "unresolved names"

\* C1: right after guessKinds decodes the masks, the Kind of every probed name
\* is given by its mask without the signed-test bit: {not-str-lit, not-type}
\* is uconst when the signed-test bit is set and iconst otherwise,
\* {not-int-const, not-str-lit, not-type} is fconst, {not-int-const,
\* not-num-const, not-type} is sconst, {not-int-const, not-num-const,
\* not-str-lit} is type, all four is "not-type" (undeclared or variable), and
\* any other mask reports "could not determine kind" and assigns no Kind.
C1_KindByMask ==
    Decoded =>
      \A i \in DOMAIN names :
        LET all == Bits(sniff[i])
            b == all \ {"not-signed-int-const"}
            n == Name[names[i]]
            err == <<Undetermined, names[i]>> \in reported
        IN  IF b = {"not-str-lit", "not-type"}
                THEN /\ ~err
                     /\ n.Kind = IF "not-signed-int-const" \in all
                                    THEN "uconst" ELSE "iconst"
            ELSE IF b = {"not-int-const", "not-str-lit", "not-type"}
                THEN ~err /\ n.Kind = "fconst"
            ELSE IF b = {"not-int-const", "not-num-const", "not-type"}
                THEN ~err /\ n.Kind = "sconst"
            ELSE IF b = {"not-int-const", "not-num-const", "not-str-lit"}
                THEN ~err /\ n.Kind = "type"
            ELSE IF b = {"not-int-const", "not-num-const", "not-str-lit", "not-type"}
                THEN ~err /\ n.Kind = "not-type"
            ELSE err /\ n.Kind = ""

\* two names were probed: one decoded to uconst, the other had not-declared
\* set and was reported
C1_Witness ==
    /\ Decoded
    /\ \E i, j \in DOMAIN names :
         /\ Name[names[i]].Kind = "uconst"
         /\ "not-declared" \in Bits(sniff[j])
         /\ <<Undetermined, names[j]>> \in reported

(***************************************************************************)
(* C2: the Kind of a Name across the pipeline.                             *)
(***************************************************************************)
\* C2 as stated: across the whole Translate pipeline, once the Kind of a Name
\* is set it is never changed to a different value.
C2_KindNeverChanges ==
    [][\A k \in DOMAIN Name \cap DOMAIN Name' :
         Name[k].Kind # "" => Name'[k].Kind = Name[k].Kind]_vars

\* C2: across the whole Translate pipeline, a Kind other than "not-type" is
\* never changed once set; "not-type", which guessKinds gives to a name that
\* is declared and is no type or constant, is changed once, to "func" by
\* loadDWARF or to "var" by rewriteRef, and to nothing else.
C2_KindSettlesOnce ==
    [][\A k \in DOMAIN Name \cap DOMAIN Name' :
         Name[k].Kind # "" =>
            \/ Name'[k].Kind = Name[k].Kind
            \/ Name[k].Kind = "not-type" /\ Name'[k].Kind \in {"func", "var"}]_vars

\* the pipeline ran to its end with one name made a function by loadDWARF and
\* another made a variable by rewriteRef
C2_Witness ==
    /\ pc = "done"
    /\ \E k, j \in DOMAIN Name : Name[k].Kind = "func" /\ Name[j].Kind = "var"

(***************************************************************************)
(* C3, C4: the pointer check of a call's arguments.                        *)
(***************************************************************************)
\* the foreign type of parameter i of function node g, qualifiers and
\* typedefs removed
ParamNode(g, i) == base(dw[g].params[i])

\* the function literal checks its parameter i before the real call
ChecksParam(lit, i) ==
    \E j \in DOMAIN lit.body :
        /\ lit.body[j].k = "exprstmt"
        /\ lit.body[j].x.fun = Var("_cgoCheckPointer")
        /\ lit.body[j].x.args[1] = Var("_cgo" \o ToString(i - 1))

\* C3: for every call of a translated function that rewriteCalls handles and
\* every parameter whose argument is not the literal nil, if the parameter is
\* a pointer whose foreign pointee holds a pointer anywhere in its layout (as
\* dwarfHasPointer reports), the call is rewritten and _cgoCheckPointer is
\* called on that parameter before the foreign call.
C3_PointerParamsChecked ==
    last.op = "rewriteCall" =>
      \A i \in DOMAIN last.args \cap DOMAIN dw[last.d].params :
         ( /\ last.args[i] # Var("nil")
           /\ dw[ParamNode(last.d, i)].kind = "ptr"
           /\ dwarfHasPointer(dw[ParamNode(last.d, i)].sub) )
         => /\ ~last.out.panic
            /\ last.out.call.fun.k = "funclit"
            /\ ChecksParam(last.out.call.fun, i)

\* what a host type expression names: the definition the typedef map holds
\* for a _Ctype_ name, followed to its end
RECURSIVE Resolved(_)
Resolved(x) ==
    IF x.k = "ident" /\ x.name \in DOMAIN conv.typedef
        THEN Resolved(conv.typedef[x.name].Go) ELSE x

HostInts == {"int8", "int16", "int32", "int64", "uint8", "uint16", "uint32",
             "uint64"}

\* the host type is a plain integer
IsHostInt(x) == Resolved(x).k = "ident" /\ Resolved(x).name \in HostInts

\* the target of a host pointer type, <<>> when it is no pointer or has none
HostTarget(x) ==
    CASE x.k = "star" -> conv.starX[x.id]
      [] x.k = "starof" -> <<x.x>>
      [] OTHER -> <<>>

\* the host type is a struct with a field of pointer type
IsHostStructWithPointer(x) ==
    /\ Resolved(x).k = "struct"
    /\ \E i \in DOMAIN Resolved(x).fields :
          Resolved(x).fields[i].type.k \in {"star", "starof"}

\* C4: for every translated parameter type, needsPointerCheck answers no for
\* the literal nil; for any other argument it answers no for a plain integer
\* parameter and for a pointer to a plain integer, and yes for a pointer to a
\* struct that has a pointer field.
C4_NeedsPointerCheck ==
    \A g \in DOMAIN Name :
      Name[g].Kind = "func" =>
        \A i \in DOMAIN Name[g].FuncType[1].Params :
          LET go == TypeAt(conv, Name[g].FuncType[1].Params[i]).Go
          IN  /\ needsPointerCheck(conv, go, Var("nil")) = "no"
              /\ \A arg \in ArgShapes \ {Var("nil")} :
                   /\ IsHostInt(go) => needsPointerCheck(conv, go, arg) = "no"
                   /\ (HostTarget(go) # <<>> /\ IsHostInt(HostTarget(go)[1]))
                         => needsPointerCheck(conv, go, arg) = "no"
                   /\ (HostTarget(go) # <<>>
                          /\ IsHostStructWithPointer(HostTarget(go)[1]))
                         => needsPointerCheck(conv, go, arg) = "yes"

\* a function of a pointer to a struct with a pointer field and of a pointer
\* to an integer is loaded, and a call of it was rewritten with a check of
\* the first parameter and none of the second
C4_Witness ==
    /\ last.op = "rewriteCall"
    /\ last.d = "f_2"
    /\ last.args = <<Var("v"), Var("v")>>
    /\ IsHostStructWithPointer(
          HostTarget(TypeAt(conv, Name["f_2"].FuncType[1].Params[1]).Go)[1])
    /\ IsHostInt(HostTarget(TypeAt(conv, Name["f_2"].FuncType[1].Params[2]).Go)[1])
    /\ last.out.call.fun.k = "funclit"
    /\ ChecksParam(last.out.call.fun, 1)
    /\ ~ChecksParam(last.out.call.fun, 2)

(***************************************************************************)
(* C5, C6, C7: the pointer placeholders and the cache of a typeConv.       *)
(***************************************************************************)
\* C5: after any sequence of Type and FinishType calls, once FinishType has
\* returned, every placeholder pointer Type made so far has the translated
\* pointee as the target of its host pointer expression, and its foreign
\* spelling is no longer "<incomplete>*".
C5_AllPlaceholdersPatched ==
    (last.op = "FinishType" /\ conv.fatal = "") =>
      \A p \in DOMAIN conv.starX :
         /\ dw[p].sub \in DOMAIN conv.m
         /\ conv.starX[p] = <<conv.m[dw[p].sub].Go>>
         /\ conv.m[p].C # TR("<incomplete>*", Nil)

\* the fields of struct node d that point to node e
PointersTo(d, e) ==
    {dw[d].fields[i].type : i \in {j \in DOMAIN dw[d].fields :
         dw[dw[d].fields[j].type].kind = "ptr" /\ dw[dw[d].fields[j].type].sub = e}}

C7_TypeIdempotent ==
    [][(last'.op = "Type" /\ last'.d \in DOMAIN conv.m /\ pc = "conv")
          => conv' = conv]_vars

\* Type was called twice on the self-pointing struct and nothing else
C7_Witness ==
    /\ pc = "conv"
    /\ steps = 2
    /\ last.op = "Type" /\ last.d = "S" /\ last.hit
    /\ conv.ptrKeys = <<"S">>
    /\ Len(conv.ptrs["S"]) = 1

(***************************************************************************)
(* C8, C9: the layout typeConv.Struct emits.                               *)
(***************************************************************************)
RECURSIVE Sum(_)
Sum(sz) == IF sz = <<>> THEN 0 ELSE Head(sz) + Sum(Tail(sz))

\* C8: when Struct returns without a fatal error the sizes of the emitted
\* fields, padding included, add up to the declared size of the struct; when
\* they do not add up to it the translation is fatal.
C8_SizesAddUp ==
    last.op = "Struct" =>
      /\ last.fatal = "" => Sum(last.sizes) = dw["X"].size
      /\ Sum(last.sizes) # dw["X"].size => last.fatal # ""

\* a struct of three fields was laid out with padding and no fatal error
C8_Witness ==
    /\ last.op = "Struct"
    /\ last.fatal = ""
    /\ Len(last.sizes) = 5
    /\ \E k \in DOMAIN last.src : last.src[k][1] = "gap"

\* where an emitted entry comes in declaration order: the padding in front of
\* field i, field i, the trailing padding
OrderKey(e) ==
    CASE e[1] = "gap" -> 2 * e[2]
      [] e[1] = "field" -> 2 * e[2] + 1
      [] OTHER -> 2 * (MaxFields + 2)

\* the bytes emitted before declared field i is reached
EmittedBefore(i) ==
    Sum([k \in 1..Cardinality({j \in DOMAIN last.src :
                                 OrderKey(last.src[j]) < 2 * i}) |-> last.sizes[k]])

ScenarioB ==
    StructT("struct", "X", 16,
            <<DField("f0", "int", 0, 0), DField("f1", "int", 4, 0),
              DField("f2", "short", 10, 0)>>)

\* C9: Struct emits the fields in declaration order; in front of every
\* declared field that lies beyond the end of what is emitted so far it puts
\* one padding field of exactly the missing bytes, and nowhere else; after
\* the last field it puts padding of the declared size less the emitted size.
\* Fields at 0 (4 bytes), 4 (4 bytes), 10 (2 bytes) of a struct of 16 bytes
\* give f0 (4), f1 (4), padding (2), f2 (2), padding (4).
C9_OrderAndPadding ==
    (last.op = "Struct" /\ last.fatal = "") =>
      /\ Len(last.fld) = Len(last.src) /\ Len(last.sizes) = Len(last.src)
      /\ \A k, l \in DOMAIN last.src :
           k < l => OrderKey(last.src[k]) < OrderKey(last.src[l])
      /\ \A i \in DOMAIN dw["X"].fields :
           (dw["X"].fields[i].off > EmittedBefore(i))
              <=> (\E k \in DOMAIN last.src : last.src[k] = <<"gap", i>>)
      /\ \A k \in DOMAIN last.src :
           /\ last.src[k][1] = "gap" =>
                /\ last.sizes[k] = dw["X"].fields[last.src[k][2]].off
                                     - Sum(SubSeq(last.sizes, 1, k - 1))
                /\ last.fld[k].type = Opaque(last.sizes[k], "pad")
           /\ last.src[k][1] = "tail" =>
                /\ k = Len(last.src)
                /\ last.sizes[k] = dw["X"].size - Sum(SubSeq(last.sizes, 1, k - 1))
                /\ last.fld[k].type = Opaque(last.sizes[k], "pad")
           /\ (last.src[k][1] = "field" /\ ~godefs) =>
                last.fld[k].name = dw["X"].fields[last.src[k][2]].name
      /\ dw["X"] = ScenarioB =>
           /\ last.sizes = <<4, 4, 2, 2, 4>>
           /\ last.src = <<<<"field", 1>>, <<"field", 2>>, <<"gap", 3>>,
                           <<"field", 3>>, <<"tail", 0>>>>
           /\ ~godefs => [k \in 1..5 |-> last.fld[k].name]
                            = <<"f0", "f1", "_", "f2", "_">>

\* the struct of Scenario B was laid out
C9_Witness ==
    /\ last.op = "Struct"
    /\ last.fatal = ""
    /\ dw["X"] = ScenarioB
    /\ ~godefs

(***************************************************************************)
(* C10: the host type of an integer base type.                             *)
(***************************************************************************)
\* the fixed host type of an integer of size bytes: intN or uintN of N = 8 *
\* size bits, and [16]uint8 for 16 bytes
FixedHostType(kind, size) ==
    IF size = 16 THEN ArrayOf(16, Ident("uint8"), "X")
    ELSE Ident((IF kind = "int" THEN "int" ELSE "uint") \o ToString(8 * size))

\* C10 as stated: for every integer base type of 1, 2, 4 or 8 bytes Type
\* returns the fixed host type of that width and signedness, and for 16
\* bytes a byte array of length 16.
C10_FixedHostType ==
    (pc = "prim" /\ last.op = "Type" /\ dw["X"].size \in {1, 2, 4, 8, 16}) =>
      /\ conv.fatal = ""
      /\ conv.m["X"].Go = FixedHostType(dw["X"].kind, dw["X"].size)

\* C10: for every named integer base type of 1, 2, 4, 8 or 16 bytes that
\* is not bit-sized, Type succeeds and the typedef map defines _Ctype_<name>
\* as the fixed host type of that width and signedness ([16]uint8 for 16
\* bytes); the Type returned has that fixed host type in godefs mode, and
\* the name _Ctype_<name> otherwise.  A bit-sized integer is fatal, and so is
\* a base type without a name (no C name was made for it).
C10_FixedOrNamedHostType ==
    (pc = "prim" /\ last.op = "Type" /\ dw["X"].size \in {1, 2, 4, 8, 16}) =>
      LET fixed == FixedHostType(dw["X"].kind, dw["X"].size)
          cname1 == "_Ctype_" \o PrimName(dw["X"].name)
      IN  IF dw["X"].bitsize > 0 \/ dw["X"].name = "" THEN conv.fatal # ""
          ELSE /\ conv.fatal = ""
               /\ conv.m["X"].Size = dw["X"].size
               /\ cname1 \in DOMAIN conv.typedef
               /\ conv.typedef[cname1].Go = fixed
               /\ conv.m["X"].Go = IF godefs THEN fixed ELSE IdentAt(cname1, "X")

\* Type returned for an 8-byte "long int" outside godefs mode: _Ctype_long,
\* defined as int64
C10_Witness ==
    /\ pc = "prim" /\ last.op = "Type" /\ ~godefs
    /\ dw["X"].kind = "int" /\ dw["X"].name = "long int" /\ dw["X"].size = 8
    /\ dw["X"].bitsize = 0
    /\ conv.m["X"].Go.name = "_Ctype_long"
    /\ conv.typedef["_Ctype_long"].Go = Ident("int64")


(***************************************************************************)
(* C11: the string constants gccDebug builds.                              *)
(***************************************************************************)
\* buildStrings has run over the maps the symbol scan filled
StringsBuilt == gcc.format # "none" /\ gcc.built

\* C11: once buildStrings has run, if some string constant index has a
\* decoded length L and data D with L >= len(D) the run is fatal with "invalid
\* string literal"; otherwise gccDebug returns and the value of every index is
\* exactly the first L bytes of its D, of length exactly L (so a blob of L+1
\* bytes, sentinel included, gives L bytes).
C11_StringConstants ==
    StringsBuilt =>
        IF \E n \in DOMAIN gcc.strlens : gcc.strlens[n] >= Len(DataAt(gcc, n))
        THEN pc = "fatal" /\ fatal = "invalid string literal"
        ELSE /\ pc = "return"
             /\ fatal = ""
             /\ \A n \in DOMAIN gcc.strlens :
                  /\ Len(gcc.strs[n]) = gcc.strlens[n]
                  /\ \A i \in 1..gcc.strlens[n] :
                       gcc.strs[n][i] = DataAt(gcc, n)[i]

\* a two-byte literal with its sentinel was decoded to its two bytes
C11_Witness ==
    /\ StringsBuilt
    /\ pc = "return"
    /\ 1 \in DOMAIN gcc.strlens
    /\ gcc.strlens[1] = 2
    /\ DataAt(gcc, 1) = <<97, 98, 0>>
    /\ gcc.strs[1] = <<97, 98>>

(***************************************************************************)
(* C19: the order in which gccDebug tries the container formats.           *)
(***************************************************************************)
\* C19: the formats tried so far are an initial part of Mach-O, ELF, PE; when
\* a format has opened the object it is the last one tried (no later format is
\* tried) and only then does gccDebug scan symbols or return; the run is fatal
\* with "cannot parse gcc output" exactly when all three were tried and none
\* opened.
C19_FormatOrder ==
    gcc # NoObject =>
        /\ gcc.tried = SubSeq(<<"macho", "elf", "pe">>, 1, Len(gcc.tried))
        /\ gcc.format # "none" => gcc.format = gcc.tried[Len(gcc.tried)]
        /\ pc \in {"symbols", "return"} => gcc.format # "none"
        /\ fatal = "cannot parse gcc output as ELF, Mach-O, PE object"
               <=> /\ pc = "fatal"
                   /\ gcc.format = "none"
                   /\ gcc.tried = <<"macho", "elf", "pe">>
        /\ gcc.format = "none" /\ pc # "fatal" =>
               pc = <<"macho", "elf", "pe">>[Len(gcc.tried) + 1]

\* Mach-O and ELF did not open the object, PE did and gccDebug returned
C19_Witness ==
    /\ gcc # NoObject
    /\ gcc.tried = <<"macho", "elf", "pe">>
    /\ gcc.format = "pe"
    /\ pc = "return"

(***************************************************************************)
(* C12: the parameters of the function literal of a rewritten call.        *)
(***************************************************************************)
\* rewriteCall has just replaced the Fun of the call by a function literal
Rewritten ==
    /\ last.op = "rewriteCall"
    /\ ~last.out.panic
    /\ last.out.call.fun.k = "funclit"

\* the FuncType of the function the last call names
CalledType == Name[last.d].FuncType[1]

\* a host type with every placeholder followed to its target and both
\* spellings of the unsafe pointer type written unsafe.Pointer
RECURSIVE Spelled(_)
Spelled(x) ==
    CASE x.k = "ident" ->
             IF x.name \in {"unsafe.Pointer", "_cgo_unsafe.Pointer"}
                 THEN Ident("unsafe.Pointer") ELSE x
      [] x.k = "array" -> [x EXCEPT !.elt = Spelled(@)]
      [] x.k = "struct" ->
             [x EXCEPT !.fields = [i \in DOMAIN @ |->
                   [@[i] EXCEPT !.type = Spelled(@)]]]
      [] x.k = "star" ->
             IF conv.starX[x.id] = <<>> THEN x
             ELSE StarOf(Spelled(conv.starX[x.id][1]))
      [] x.k = "starof" -> StarOf(Spelled(x.x))
      [] OTHER -> x

\* the host type names unsafe.Pointer by that spelling
RECURSIVE NamesUnsafe(_)
NamesUnsafe(x) ==
    CASE x.k = "ident" -> x.name = "unsafe.Pointer"
      [] x.k = "array" -> NamesUnsafe(x.elt)
      [] x.k = "struct" -> \E i \in DOMAIN x.fields : NamesUnsafe(x.fields[i].type)
      [] x.k = "star" ->
             conv.starX[x.id] # <<>> /\ NamesUnsafe(conv.starX[x.id][1])
      [] x.k = "starof" -> NamesUnsafe(x.x)
      [] OTHER -> FALSE

\* parameter i of the literal is _cgo<i-1>, typed with the translated type of
\* parameter i of the function, unsafe.Pointer spelled _cgo_unsafe.Pointer
ParamTyped(lit, i) ==
    LET go == TypeAt(conv, CalledType.Params[i]).Go
    IN  /\ lit.params[i].name = "_cgo" \o ToString(i - 1)
        /\ ~NamesUnsafe(lit.params[i].type)
        /\ Spelled(lit.params[i].type) = Spelled(go)
        /\ ~NamesUnsafe(go) => lit.params[i].type = go

\* the literal calls the original function on its parameters, in order, and
\* is itself called on the original arguments
InnerCall(lit) ==
    /\ lit.body[Len(lit.body)].x.fun = Select(Var("C"), last.d)
    /\ lit.body[Len(lit.body)].x.args =
           [i \in DOMAIN lit.params |-> Var(lit.params[i].name)]
    /\ last.out.call.args = last.args

\* C12 as stated: the function literal of a rewritten call has exactly one
\* parameter per argument of the call, each typed with the translated
\* parameter type (unsafe.Pointer spelled _cgo_unsafe.Pointer), and the inner
\* call passes the parameters in order.
C12_OneParamPerArgument ==
    Rewritten =>
        LET lit == last.out.call.fun
        IN  /\ Len(lit.params) = Len(last.args)
            /\ \A i \in DOMAIN lit.params :
                 i \in DOMAIN CalledType.Params /\ ParamTyped(lit, i)
            /\ InnerCall(lit)

\* C12 amended: the function literal has exactly one parameter per parameter
\* of the function, which is one per argument when the call has as many
\* arguments as the function has parameters and fewer when the call has more
\* arguments; each is typed with the translated parameter type (unsafe.Pointer
\* spelled _cgo_unsafe.Pointer), and the inner call passes them in order.
C12_OneParamPerParameter ==
    Rewritten =>
        LET lit == last.out.call.fun
        IN  /\ Len(lit.params) = Len(CalledType.Params)
            /\ Len(lit.params) <= Len(last.args)
            /\ \A i \in DOMAIN lit.params : ParamTyped(lit, i)
            /\ InnerCall(lit)

\* a call of a function of one void* parameter was rewritten: the literal's
\* one parameter is typed _cgo_unsafe.Pointer
C12_Witness ==
    /\ Rewritten
    /\ last.d = "f_pvoid"
    /\ last.args = <<Var("v")>>
    /\ last.out.call.fun.params =
           <<[name |-> "_cgo0", type |-> Ident("_cgo_unsafe.Pointer")]>>
    /\ last.out.needsUnsafe

(***************************************************************************)
(* C13: the validation calls in the body of a rewritten call.              *)
(***************************************************************************)
\* needsPointerCheck holds for parameter i of the last call and its argument
Needs(i) ==
    needsPointerCheck(conv, TypeAt(conv, CalledType.Params[i]).Go,
                      last.args[i]) = "yes"

\* the parameters from i on that need a check, in parameter order
RECURSIVE NeededFrom(_)
NeededFrom(i) ==
    IF i > Len(CalledType.Params) THEN <<>>
    ELSE (IF Needs(i) THEN <<i>> ELSE <<>>) \o NeededFrom(i + 1)

\* the statement is a validation call on parameter i
ValidatesParam(stmt, i) ==
    /\ stmt.k = "exprstmt"
    /\ stmt.x.fun = Var("_cgoCheckPointer")
    /\ stmt.x.args[1] = Var("_cgo" \o ToString(i - 1))

\* C13: the body of the function literal of a rewritten call is one
\* _cgoCheckPointer call for each parameter for which needsPointerCheck holds,
\* once each and in parameter order, followed by the one call of the foreign
\* function as its last statement; a call is rewritten only if some parameter
\* needs a check, and a call none of whose parameters needs one is left as
\* it was.
C13_ChecksBeforeCall ==
    (last.op = "rewriteCall" /\ ~last.out.panic) =>
        LET body == last.out.call.fun.body
            n == Len(CalledType.Params)
        IN  IF Len(last.args) >= n /\ NeededFrom(1) # <<>>
            THEN /\ Rewritten
                 /\ Len(body) = Len(NeededFrom(1)) + 1
                 /\ \A j \in 1..Len(NeededFrom(1)) :
                      ValidatesParam(body[j], NeededFrom(1)[j])
                 /\ body[Len(body)].k \in {"exprstmt", "return"}
                 /\ body[Len(body)].x.fun = Select(Var("C"), last.d)
            ELSE /\ last.out.call.fun = Select(Var("C"), last.d)
                 /\ last.out.call.args = last.args
                 /\ ~last.out.needsUnsafe

\* a call of a function of two pointer parameters was rewritten with one
\* validation call on each, the first parameter's first, before the real call
C13_Witness ==
    /\ Rewritten
    /\ last.d = "f_pp"
    /\ last.args = <<Var("v"), Var("v")>>
    /\ NeededFrom(1) = <<1, 2>>
    /\ Len(last.out.call.fun.body) = 3
    /\ ValidatesParam(last.out.call.fun.body[1], 1)
    /\ ValidatesParam(last.out.call.fun.body[2], 2)
    /\ last.out.call.fun.body[3].x.fun = Select(Var("C"), "f_pp")

(***************************************************************************)
(* C14: the extra arguments checkAddrArgs gives a validation call.         *)
(***************************************************************************)
\* the expression holds a call expression
RECURSIVE ContainsCall(_)
ContainsCall(x) ==
    \/ x.k = "call"
    \/ x.k \in {"unary", "index", "selexpr", "starexpr"} /\ ContainsCall(x.x)

\* what the claim has checkAddrArgs append for an argument, conversions
\* stripped
AddrArgsFor(arg) ==
    LET x == StripConversions(conv, arg)
    IN  IF x.k = "unary" /\ x.op = "&"
        THEN IF x.x.k # "index" THEN <<Var("true")>>
             ELSE IF ~ContainsCall(x.x.x) THEN <<x.x.x>>
             ELSE <<>>
        ELSE <<>>

\* C14: in a rewritten call, the validation call of a parameter carries the
\* parameter followed by what checkAddrArgs appends for the argument once its
\* type conversions are stripped: the marker true for &x with x no index
\* expression, base for &base[i] when base holds no call, and nothing when base
\* holds a call or the argument is no address-of expression; so f(&s.field)
\* with a checked parameter has exactly one validation call, with the marker.
C14_AddrArgs ==
    Rewritten =>
        LET body == last.out.call.fun.body
        IN  /\ \A j \in 1..(Len(body) - 1) :
                 \A i \in DOMAIN CalledType.Params :
                    ValidatesParam(body[j], i) =>
                        body[j].x.args =
                            <<Var("_cgo" \o ToString(i - 1))>>
                                \o AddrArgsFor(last.args[i])
            /\ (Len(CalledType.Params) = 1
                  /\ last.args = <<AddrOf(Select(Var("s"), "field"))>>)
                 => /\ Len(body) = 2
                    /\ body[1] = ExprStmt(CallOf(Var("_cgoCheckPointer"),
                                                 <<Var("_cgo0"), Var("true")>>))

\* f(&s.field) was rewritten with one validation call carrying the marker
C14_Witness ==
    /\ Rewritten
    /\ last.d = "f_pSP"
    /\ last.args = <<AddrOf(Select(Var("s"), "field"))>>
    /\ Len(last.out.call.fun.body) = 2
    /\ last.out.call.fun.body[1].x.args = <<Var("_cgo0"), Var("true")>>

(***************************************************************************)
(* C15: the results of the function literal of a rewritten call.           *)
(***************************************************************************)
\* the result of the function, as the literal spells it: none for a void
\* function, else the translated result type with unsafe.Pointer spelled
\* _cgo_unsafe.Pointer
MirrorsResult(res) ==
    IF CalledType.Result = <<>> THEN res = <<>>
    ELSE LET go == TypeAt(conv, CalledType.Result[1]).Go
         IN  /\ Len(res) = 1
             /\ ~NamesUnsafe(res[1])
             /\ Spelled(res[1]) = Spelled(go)
             /\ ~NamesUnsafe(go) => res[1] = go

\* C15: the result list of the function literal of a rewritten call is the
\* function's result (none for a void function) when the Ref of the call does
\* not have the context call2; when it has, the list is the function's result,
\* or _Ctype_void for a void function, followed by one error result.
C15_Results ==
    Rewritten =>
        LET res == last.out.call.fun.results
        IN  IF last.out.call.ctx = "call2"
            THEN /\ Len(res) = 2
                 /\ res[2] = Var("error")
                 /\ IF CalledType.Result = <<>>
                        THEN res[1] = Var("_Ctype_void")
                        ELSE MirrorsResult(<<res[1]>>)
            ELSE MirrorsResult(res)

\* a call of a void function in the context call2 was rewritten: the literal
\* returns _Ctype_void and error
C15_Witness ==
    /\ Rewritten
    /\ last.d = "f_pS"
    /\ last.out.call.ctx = "call2"
    /\ CalledType.Result = <<>>
    /\ last.out.call.fun.results = <<Var("_Ctype_void"), Var("error")>>

(***************************************************************************)
(* C16, C17: guessKinds and the lines of the diagnostic stream.            *)
(***************************************************************************)
\* the line names a probe file or completed, at the line of a probed name
Matched(line) == line.num \in 1..Len(names) /\ line.file \in LineFiles

\* whether, after the lines s, an unmatched error is pending: some error of s
\* was unmatched and no matched error, and no matched note counted as an
\* error, came after it
RECURSIVE Pending(_)
Pending(s) ==
    IF s = <<>> THEN FALSE
    ELSE LET l == s[Len(s)]
             before == Pending(SubSeq(s, 1, Len(s) - 1))
         IN  CASE l.kind = "error" -> ~Matched(l)
               [] l.kind = "note" /\ before -> ~Matched(l)
               [] OTHER -> before

\* line j of the stream counts as an error: it is one, or it is a note read
\* while an unmatched error is pending
Counted(j) ==
    \/ gcc.read[j].kind = "error"
    \/ gcc.read[j].kind = "note" /\ Pending(SubSeq(gcc.read, 1, j - 1))

\* guessKinds has read the stream and ended, with a result or fatally
StreamEnded ==
    /\ gcc.format = "text"
    /\ gcc.read # <<>>
    /\ pc \in {"fatal", "loadDWARF"}

\* C16 as stated: when the stream guessKinds parsed holds no error at the
\* completed marker, the run is fatal and no probed name has a Kind, whatever
\* else the stream holds.
C16_NoCompletedErrorIsFatal ==
    (StreamEnded /\ ~\E j \in DOMAIN gcc.read :
                        /\ gcc.read[j].kind = "error"
                        /\ gcc.read[j].file = "completed")
        => /\ pc = "fatal"
           /\ \A i \in DOMAIN names : Name[names[i]].Kind = ""

\* C16 amended: when the stream holds no line at the completed marker, at the
\* line of a probed name, that is an error or a note counted as one (a note
\* read while an unmatched error is pending), the run is fatal with "did not
\* produce error at completed:1", nothing is reported and no probed name has a
\* Kind, whatever else the stream holds; when it holds such a line the run does
\* not end with that message.
C16_NoCompletedLineIsFatal ==
    StreamEnded =>
        IF \E j \in DOMAIN gcc.read :
               /\ gcc.read[j].file = "completed"
               /\ Matched(gcc.read[j])
               /\ Counted(j)
        THEN fatal # "did not produce error at completed:1"
        ELSE /\ pc = "fatal"
             /\ fatal = "did not produce error at completed:1"
             /\ reported = {}
             /\ \A i \in DOMAIN names : Name[names[i]].Kind = ""

\* the stream held the errors that decode to a Kind but none at completed:
\* the run ended fatally and the name has no Kind
C16_Witness ==
    /\ StreamEnded
    /\ fatal = "did not produce error at completed:1"
    /\ KindOfMask(sniff[1]) = "iconst"
    /\ Name["x"].Kind = ""
    /\ \E j \in DOMAIN gcc.read : gcc.read[j].kind = "error" /\ ~Matched(gcc.read[j])

\* the step reads one more line of the stream, a note
ReadsNote ==
    /\ gcc.format = "text"
    /\ Len(gcc'.read) = Len(gcc.read) + 1
    /\ gcc'.read[Len(gcc'.read)].kind = "note"

\* C17 as stated: a note line changes a mask only when the line read just
\* before it is an unmatched error line; in any other position, after
\* intervening lines that are no errors included, it changes no mask.
C17_NoteRightAfterUnmatchedError ==
    [][(ReadsNote /\ sniff' # sniff)
          => /\ gcc.read # <<>>
             /\ gcc.read[Len(gcc.read)].kind = "error"
             /\ ~Matched(gcc.read[Len(gcc.read)])]_vars

\* C17 amended: a note line changes a mask exactly when an unmatched error is
\* pending (some earlier error line was unmatched, and no matched error and no
\* matched note counted as an error came after it: lines that are neither,
\* and unmatched notes, may lie between) and the note itself names a probe
\* file at the line of a name; it then sets that probe's bit in that name's
\* mask.  A note read when no unmatched error is pending, as after a matched
\* error or a matched counted note, changes no mask.
C17_NoteWhileUnmatchedPending ==
    [][ReadsNote =>
          LET l == gcc'.read[Len(gcc'.read)]
          IN  IF Pending(gcc.read) /\ Matched(l) /\ l.file \in ProbeTags
              THEN sniff' = [sniff EXCEPT ![l.num] = BitOr(@, TagBit(l.file))]
              ELSE sniff' = sniff]_vars

\* a note set a bit of the mask with a line that is no error between it and
\* the unmatched error
C17_Witness ==
    /\ gcc.format = "text"
    /\ gcc.read = <<[kind |-> "error", file |-> "x.h", num |-> 1],
                    [kind |-> "other", file |-> "x.h", num |-> 1],
                    [kind |-> "note", file |-> "not-type", num |-> 1]>>
    /\ sniff = <<notType>>

(***************************************************************************)
(* C18: the order of the phases of Translate.                              *)
(***************************************************************************)
\* the place of a position of Translate in the order of its phases: the
\* classifier (loadDefines, then guessKinds with its loop over the lines), the
\* extractor, the call rewriter, the reference rewriter, the end
PhaseRank(p) ==
    CASE p = "loadDefines" -> 1
      [] p = "guessKinds" -> 2
      [] p = "gccErrors" -> 3
      [] p = "lines" -> 4
      [] p = "loadDWARF" -> 5
      [] p = "rewriteCalls" -> 6
      [] p = "rewriteRef" -> 7
      [] p = "done" -> 8
      [] OTHER -> 9

\* some call of the file has been rewritten into a function literal
SomeCallRewritten == \E i \in DOMAIN Calls : Calls[i].fun.k = "funclit"

\* C18: every step of Translate moves to a later phase (only the loop over the
\* lines inside guessKinds repeats), so no phase runs twice or overlaps
\* another; loadDefines is followed by guessKinds; loadDWARF starts only after
\* guessKinds and only with a needs-type list that is not empty, and is
\* skipped only when the list is empty; rewriteCalls starts only after that,
\* rewriteRef only after rewriteCalls, and Translate ends only after
\* rewriteRef; calls are rewritten only by rewriteCalls, and when it starts
\* every Name of Kind func has its FuncType.
C18_PhaseOrder ==
    [][/\ pc' # pc => PhaseRank(pc') > PhaseRank(pc)
       /\ pc' = pc => pc = "lines"
       /\ (pc' = "guessKinds") => pc = "loadDefines"
       /\ (pc' = "loadDWARF") => pc \in {"guessKinds", "lines"} /\ needType' # <<>>
       /\ (pc' = "rewriteCalls") =>
             \/ pc = "loadDWARF"
             \/ pc = "guessKinds" /\ needType' = <<>>
       /\ (pc' = "rewriteRef") => pc = "rewriteCalls"
       /\ (pc' = "done") => pc = "rewriteRef"
       /\ (Calls' # Calls) => pc = "rewriteCalls"
       /\ (pc = "rewriteCalls") =>
             \A k \in DOMAIN Name : Name[k].Kind = "func" => Name[k].FuncType # <<>>
      ]_vars

\* Translate ran all its phases, loadDWARF gave a function its FuncType and
\* rewriteCalls rewrote a call of it
C18_Witness ==
    /\ pc = "done"
    /\ needType # <<>>
    /\ SomeCallRewritten
    /\ \E k \in DOMAIN Name : Name[k].Kind = "func" /\ Name[k].FuncType # <<>>

(***************************************************************************)
(* C20: the names guessKinds cannot decode.                                *)
(***************************************************************************)
\* the sets of probe bits, the signed test apart, that decode to a Kind
DecodableBits ==
    {{"not-str-lit", "not-type"},
     {"not-int-const", "not-str-lit", "not-type"},
     {"not-int-const", "not-num-const", "not-type"},
     {"not-int-const", "not-num-const", "not-str-lit"},
     {"not-int-const", "not-num-const", "not-str-lit", "not-type"}}

\* the probed names whose mask does not decode
Undecoded ==
    {i \in DOMAIN names :
        (Bits(sniff[i]) \ {"not-signed-int-const"}) \notin DecodableBits}

\* C20: when guessKinds has decoded the masks, it has reported one "could not
\* determine kind" error for every probed name whose mask does not decode, and
\* no other; if it reported any, the pass failed with "unresolved names", no
\* probed name was added to the needs-type list and the extractor has not run
\* (and cannot: the run is over); if it reported none, the pass did not fail.
C20_AllUndecodedReported ==
    Decoded =>
        /\ reported = {<<Undetermined, names[i]>> : i \in Undecoded}
        /\ Cardinality(reported) = Cardinality({names[i] : i \in Undecoded})
        /\ IF Undecoded # {}
           THEN /\ pc = "fatal"
                /\ fatal = "unresolved names"
                /\ Range(needType) \cap Range(names) = {}
                /\ conv = NewConv
                /\ ~ENABLED loadDWARF
           ELSE /\ pc = "loadDWARF"
                /\ fatal = ""
                /\ needType # <<>>

\* two names were probed, neither mask decodes, both were reported and the
\* pass failed
C20_Witness ==
    /\ Decoded
    /\ Len(names) = 2
    /\ Undecoded = {1, 2}
    /\ Cardinality(reported) = 2
    /\ fatal = "unresolved names"

(***************************************************************************)
(* The package-level typedef map across the typeConvs of a package: each   *)
(* file gets a fresh typeConv, the map stays.                              *)
(***************************************************************************)
RegRoots == {"S", "Sd", "T", "Tl", "TU", "int", "L", "SL"}

\* var conv typeConv; conv.Init(...): a fresh cache and worklist, the
\* package-level typedef, goIdent, unionWithPointer and tagGen kept
typeConvInit ==
    /\ pc = "conv"
    /\ steps < MaxCalls
    /\ conv.fatal = ""
    /\ conv.m # EmptyMap
    /\ conv' = [conv EXCEPT !.m = EmptyMap, !.ptrs = EmptyMap,
                            !.ptrKeys = <<>>, !.starX = EmptyMap]
    /\ last' = [op |-> "Init"]
    /\ steps' = steps + 1
    /\ UNCHANGED <<pc, pipeVars, dw, godefs>>

\* c.Type(dtype, pos), the typedef map before the call remembered
TypeReg(d) ==
    /\ pc = "conv"
    /\ steps < MaxCalls
    /\ conv.fatal = ""
    /\ conv' = TypeConv(conv, d)
    /\ last' = [op |-> "Type", d |-> d, hit |-> Cached(conv, d),
                 old |-> conv.typedef]
    /\ steps' = steps + 1
    /\ UNCHANGED <<pc, pipeVars, dw, godefs>>

NextReg ==
    \/ \E d \in RegRoots : TypeReg(d)
    \/ FinishTypeCall
    \/ typeConvInit

SpecReg == InitConv /\ [][NextReg]_vars

\* the tags under which a typedef node registers
TypedefTags == {"_Ctype_" \o dw[d].name : d \in {x \in DOMAIN dw : dw[x].kind = "typedef"}}

RECURSIVE Unset(_)
Unset(e) == \/ e = NoExpr
            \/ e.k = "array" /\ Unset(e.elt)
            \/ e.k = "struct" /\ \E i \in DOMAIN e.fields : Unset(e.fields[i].type)

\* C22: Type called for a node that is in the cache with its host
\* expression unset is fatal with "type conversion loop", at the moment of
\* the nested call that finds it; a call that finds a finished entry
\* returns it and changes nothing; no Type that a call returned without a
\* fatal error has an unset host expression, as a whole or in a part.
C22_LoopIsFatal ==
    /\ \A d \in DOMAIN conv.m :
         \E r \in {TypeConv([conv EXCEPT !.fatal = ""], d)} :
            IF conv.m[d].Go = NoExpr
               THEN r.fatal = "type conversion loop"
               ELSE r = [conv EXCEPT !.fatal = ""]
    /\ conv.fatal = "" =>
         /\ \A d \in DOMAIN conv.m : ~Unset(conv.m[d].Go)
         /\ \A k \in DOMAIN conv.typedef : ~Unset(conv.typedef[k].Go)

\* the typedef of the struct that has a field of the typedef was
\* translated: the nested call for the field found the typedef in the
\* cache, unset
C22_Witness ==
    /\ last.op = "Type"
    /\ last.d = "L"
    /\ "L" \in DOMAIN conv.m
    /\ conv.m["L"].Go = NoExpr
    /\ conv.fatal = "type conversion loop"

(***************************************************************************)
(* C23: the fields Struct leaves out.                                      *)
(***************************************************************************)
\* the Type of struct X's declared field i, once translated
FieldType(i) == conv.m[dw["X"].fields[i].type]

\* declared field i has a bit width that is not a whole number of bytes
OddBits(i) == dw["X"].fields[i].bits > 0 /\ dw["X"].fields[i].bits % 8 # 0

\* the bytes and the alignment of declared field i as Struct lays it out: a
\* bit field of whole bytes has its own width for both
LaidSize(i) ==
    IF dw["X"].fields[i].bits > 0 THEN dw["X"].fields[i].bits \div 8
    ELSE FieldType(i).Size
LaidAlign(i) ==
    IF dw["X"].fields[i].bits > 0 THEN dw["X"].fields[i].bits \div 8
    ELSE FieldType(i).Align

\* declared field i is one Struct leaves out
LeftOut(i) ==
    \/ OddBits(i)
    \/ LaidAlign(i) > 0 /\ dw["X"].fields[i].off % LaidAlign(i) # 0

Emitted(i) == \E k \in DOMAIN last.src : last.src[k] = <<"field", i>>

\* the declared layout is one a compiler gives: every field starts inside
\* the struct, and the fields that are not left out end inside it and
\* before the next such field starts
Fits ==
    \A i \in DOMAIN dw["X"].fields :
        /\ dw["X"].fields[i].off <= dw["X"].size
        /\ ~LeftOut(i) =>
             /\ dw["X"].fields[i].off + LaidSize(i) <= dw["X"].size
             /\ \A j \in DOMAIN dw["X"].fields :
                  (i < j /\ ~LeftOut(j)) =>
                     dw["X"].fields[i].off + LaidSize(i) <= dw["X"].fields[j].off

\* C23 as stated, for a struct whose layout fits: the alignment that
\* decides is the alignment of the field's type.
C23_LeftOutByTypeAlignment ==
    (last.op = "Struct" /\ Fits /\ last.fatal = "") =>
        \A i \in DOMAIN dw["X"].fields :
            (\/ OddBits(i)
             \/ FieldType(i).Align > 0
                  /\ dw["X"].fields[i].off % FieldType(i).Align # 0)
                => ~Emitted(i)

\* C23: a field whose bit width is positive and not a multiple of 8, or
\* whose offset is not a multiple of its alignment (the alignment of its
\* type, or for a bit field of whole bytes its own byte width), is not
\* emitted; a struct with such fields whose declared layout fits is
\* translated without a fatal error and its emitted sizes add up to the
\* declared size.
C23_LeftOutWithoutError ==
    last.op = "Struct" =>
        /\ \A i \in DOMAIN dw["X"].fields : LeftOut(i) => ~Emitted(i)
        /\ ((\E i \in DOMAIN dw["X"].fields : LeftOut(i)) /\ Fits) =>
              /\ last.fatal = ""
              /\ Sum(last.sizes) = dw["X"].size

\* a struct with a misaligned int, a 3-bit field and a field that is
\* emitted was translated
C23_Witness ==
    /\ last.op = "Struct"
    /\ Fits
    /\ \E i, j, k \in DOMAIN dw["X"].fields :
         /\ OddBits(i)
         /\ ~OddBits(j) /\ LeftOut(j) /\ dw["X"].fields[j].bits = 0
         /\ Emitted(k)

(***************************************************************************)
(* typeConv.Type on one array type drawn from bounded sets.                *)
(***************************************************************************)
ArrayElems == {"int", "short", "char", "pint", "S"}
\* dt.Count: -1 is the flexible array member
ArrayCounts == {-1, 0, 1, 3}
\* dt.StrideBitSize
ArrayStrides == {0, 1}

InitArray ==
    /\ pc = "array"
    /\ Idle
    /\ conv = NewConv
    /\ godefs \in BOOLEAN
    /\ \E sub \in ArrayElems, count \in ArrayCounts, stride \in ArrayStrides :
         /\ stride > 0 => count >= 0
         /\ dw = ("X" :> [ArrayT(sub, count) EXCEPT !.stride = stride]) @@ Universe
    /\ last = NoLast
    /\ steps = 0

\* c.Type on the array
ArrayType ==
    /\ pc = "array"
    /\ steps = 0
    /\ conv' = TypeConv(conv, "X")
    /\ last' = [op |-> "Type", d |-> "X"]
    /\ steps' = 1
    /\ UNCHANGED <<pc, pipeVars, dw, godefs>>

NextArray == ArrayType

SpecArray == InitArray /\ [][NextArray]_vars

\* C24: Type gives an array the size of its element's Type times its count,
\* 0 for the count -1; an array with a stride in bits is translated, to an
\* opaque byte array of the size the debug information gives.
C24_ArraySize ==
    (last.op = "Type" /\ dw["X"].kind = "array") =>
        /\ conv.fatal = ""
        /\ IF dw["X"].stride > 0
              THEN conv.m["X"].Go = Opaque(DSize("X"), "X")
              ELSE /\ conv.m["X"].Size =
                        (IF dw["X"].count = -1 THEN 0 ELSE dw["X"].count)
                            * conv.m[dw["X"].sub].Size
                   /\ dw["X"].count = -1 => conv.m["X"].Size = 0

(***************************************************************************)
(* The body of loadDWARF's loop for a function, in its two calls:          *)
(* n.FuncType = conv.FuncType(f, pos), then conv.FinishType(pos).          *)
(***************************************************************************)
\* n.Kind = "func"; n.FuncType = conv.FuncType(f, pos)
LoadFuncType(d) ==
    /\ pc = "func"
    /\ steps < MaxLoads
    /\ conv.fatal = ""
    /\ last.op # "FuncType"
    /\ d \notin DOMAIN Name
    /\ \E r \in {FuncType(conv, d)} :
         /\ conv' = r.st
         /\ Name' = (d :> [NewName(d) EXCEPT !.C = d, !.Kind = "func",
                                            !.FuncType = <<r.ft>>]) @@ Name
    /\ last' = [op |-> "FuncType", d |-> d]
    /\ UNCHANGED <<pc, names, needType, sniff, completed, sawUnmatchedErrors,
                   reported, fatal, Ref, Calls, needsUnsafe, dw, godefs, gcc,
                   steps>>

\* conv.FinishType(pos), the last statement of the loop's body
LoadFinishType ==
    /\ pc = "func"
    /\ last.op = "FuncType"
    /\ conv.fatal = ""
    /\ conv' = FinishType(conv)
    /\ last' = [op |-> "FinishType", d |-> last.d]
    /\ steps' = steps + 1
    /\ UNCHANGED <<pc, pipeVars, dw, godefs>>

InitFunc ==
    /\ pc = "func"
    /\ Idle
    /\ conv = NewConv
    /\ dw = Universe
    /\ godefs = FALSE
    /\ last = NoLast
    /\ steps = 0

NextFunc ==
    \/ \E d \in FuncRoots : LoadFuncType(d)
    \/ LoadFinishType

SpecFunc == InitFunc /\ [][NextFunc]_vars

\* the Types a loaded function's FuncType points to: parameters, then result
TypesOf(g) == Name[g].FuncType[1].Params \o Name[g].FuncType[1].Result

\* what a Type of a FuncType reads as in typeConv st: the Type, and the
\* target of its host expression when that is a pointer
Seen(st, p) ==
    [t |-> TypeAt(st, p),
     x |-> IF p.ref # Nil /\ p.ref \in DOMAIN st.starX
              THEN st.starX[p.ref] ELSE <<>>]

HasRoots == {"short", "int", "S", "pS"}

\* declared only, declared and registered, registered only, builtin, unknown
HasNames == {"T", "_Ctype_short", "_Ctype_int", "_Ctype_struct_S", "string",
             "error", "int32", "unsafe.Pointer", "foo"}

\* p.hasPointer(f, t, top) for the identifier name
hasPointerCall(name, top) ==
    /\ pc = "conv"
    /\ conv.fatal = ""
    /\ last.op # "hasPointer"
    /\ last' = [op |-> "hasPointer", name |-> name, top |-> top,
                 out |-> hasPointer(conv, Ident(name), top)]
    /\ UNCHANGED <<pc, pipeVars, conv, dw, godefs, steps>>

NextHas ==
    \/ \E d \in HasRoots : TypeCall(d)
    \/ FinishTypeCall
    \/ \E name \in HasNames, top \in BOOLEAN : hasPointerCall(name, top)

SpecHas == InitConv /\ [][NextHas]_vars

\* the names hasPointer knows without looking them up
HostBuiltins == goTypes \cup {"string", "error"}

\* C26: hasPointer on a name answers what it answers, with the same top,
\* on the type the package's declarations give the name; for a name they
\* do not have, on the host type registered for it in the typedef map; a
\* name in neither that is no host builtin is a hit.
C26_NamedTypeResolution ==
    last.op = "hasPointer" =>
        IF last.name \in DOMAIN Decl
           THEN last.out = hasPointer(conv, Decl[last.name], last.top)
        ELSE IF last.name \in DOMAIN conv.typedef
           THEN last.out = hasPointer(conv, conv.typedef[last.name].Go, last.top)
        ELSE last.name \notin HostBuiltins => last.out = "yes"

\* a name that the declarations make a pointer and the typedef map an
\* integer was checked below the top: the declaration decided
C26_Witness ==
    /\ last.op = "hasPointer"
    /\ last.name = "_Ctype_short"
    /\ ~last.top
    /\ "_Ctype_short" \in DOMAIN conv.typedef
    /\ hasPointer(conv, conv.typedef["_Ctype_short"].Go, FALSE) = "no"
    /\ last.out = "yes"

(***************************************************************************)
(* splitQuoted on a string drawn from a bounded set.  A string is the      *)
(* sequence of its runes; an argument of the result likewise.              *)
(***************************************************************************)
\* the longest input, in runes
MaxRunes == 5

\* a letter, white space, the two quotes, the backslash
Runes == {"a", " ", "\"", "'", "\\"}

Inputs == UNION {[1..n -> Runes] : n \in 0..MaxRunes}

\* IsQuote that knows the double quote alone
IsQuoteDouble(r) == r = "\""
\* r == '"' || r == '\''
IsQuote(r) == r \in {"\"", "'"}

\* unicode.IsSpace, on the runes of the model
IsSpace(r) == r = " "

\* one turn of the loop over the runes of s; quote "" is the rune 0
splitRune(st, r) ==
    IF st.escaped
        THEN [st EXCEPT !.escaped = FALSE, !.arg = Append(@, r)]
    ELSE IF r = "\\" THEN [st EXCEPT !.escaped = TRUE]
    ELSE IF st.quote # ""
        THEN IF r = st.quote THEN [st EXCEPT !.quote = ""]
             ELSE [st EXCEPT !.arg = Append(@, r)]
    ELSE IF IsQuote(r) THEN [st EXCEPT !.quoted = TRUE, !.quote = r]
    ELSE IF IsSpace(r)
        THEN IF st.quoted \/ st.arg # <<>>
                THEN [st EXCEPT !.quoted = FALSE, !.args = Append(@, st.arg),
                                !.arg = <<>>]
                ELSE st
    ELSE [st EXCEPT !.arg = Append(@, r)]

RECURSIVE splitLoop(_, _, _)
splitLoop(s, k, st) ==
    IF k > Len(s) THEN st ELSE splitLoop(s, k + 1, splitRune(st, s[k]))

\* what follows the loop: the last argument and the error
splitEnd(st) ==
    [r |-> IF st.quoted \/ st.arg # <<>> THEN Append(st.args, st.arg)
           ELSE st.args,
     err |-> IF st.quote # "" THEN "unclosed quote"
             ELSE IF st.escaped THEN "unfinished escaping"
             ELSE ""]

\* splitQuoted: [r, err], err "" for nil
splitQuoted(s) ==
    splitEnd(splitLoop(s, 1, [args |-> <<>>, arg |-> <<>>, escaped |-> FALSE,
                              quoted |-> FALSE, quote |-> ""]))

InitSplit ==
    /\ pc = "split"
    /\ Idle
    /\ conv = NewConv
    /\ dw = Universe
    /\ godefs = FALSE
    /\ \E s \in Inputs : last = [op |-> "input", s |-> s]
    /\ steps = 0

\* r, err := splitQuoted(s)
splitQuotedCall ==
    /\ pc = "split"
    /\ last.op = "input"
    /\ last' = [op |-> "splitQuoted", s |-> last.s, out |-> splitQuoted(last.s)]
    /\ UNCHANGED <<pc, pipeVars, conv, dw, godefs, steps>>

NextSplit == splitQuotedCall

SpecSplit == InitSplit /\ [][NextSplit]_vars

\* where the reading of s stands after its last rune: inside which quote
\* ("" for none), and whether the last rune is a backslash that escapes
RECURSIVE Mode(_)
Mode(s) ==
    IF s = <<>> THEN [quote |-> "", escaped |-> FALSE]
    ELSE LET m == Mode(SubSeq(s, 1, Len(s) - 1))
             c == s[Len(s)]
         IN  IF m.escaped THEN [m EXCEPT !.escaped = FALSE]
             ELSE IF c = "\\" THEN [m EXCEPT !.escaped = TRUE]
             ELSE IF m.quote # ""
                 THEN (IF c = m.quote THEN [m EXCEPT !.quote = ""] ELSE m)
             ELSE IF c \in {"\"", "'"} THEN [m EXCEPT !.quote = c]
             ELSE m

\* what rune k of s is: text of an argument, a backslash that escapes, a
\* quote that opens or closes a region, white space that splits
Role(s, k) ==
    LET m == Mode(SubSeq(s, 1, k - 1))
    IN  IF m.escaped THEN "text"
        ELSE IF s[k] = "\\" THEN "escape"
        ELSE IF m.quote # "" THEN (IF s[k] = m.quote THEN "close" ELSE "text")
        ELSE IF s[k] \in {"\"", "'"} THEN "open"
        ELSE IF s[k] = " " THEN "split"
        ELSE "text"

\* the text runes of s from rune k on
RECURSIVE TextFrom(_, _)
TextFrom(s, k) ==
    IF k > Len(s) THEN <<>>
    ELSE (IF Role(s, k) = "text" THEN <<s[k]>> ELSE <<>>) \o TextFrom(s, k + 1)

Splits(s) == {k \in DOMAIN s : Role(s, k) = "split"}

\* the last white space that splits, 0 for none
LastSplit(s) ==
    IF Splits(s) = {} THEN 0
    ELSE CHOOSE k \in Splits(s) : \A j \in Splits(s) : j <= k

RECURSIVE Flatten(_)
Flatten(r) == IF r = <<>> THEN <<>> ELSE Head(r) \o Flatten(Tail(r))

\* C27: splitQuoted returns an error exactly when the input ends inside an
\* open quote ("unclosed quote") or right after a backslash that escapes
\* ("unfinished escaping"); with an unclosed quote the last element of the
\* result is the unclosed argument; white space alone gives the empty list
\* and no error; the arguments together are the text of the input, without
\* the quotes that delimit, the backslashes that escape and the white space
\* that splits, and only white space outside a quoted region splits.
C27_SplitQuoted ==
    last.op = "splitQuoted" =>
        /\ last.out.err # "" <=> (Mode(last.s).quote # "" \/ Mode(last.s).escaped)
        /\ Mode(last.s).quote # "" => last.out.err = "unclosed quote"
        /\ (Mode(last.s).quote = "" /\ Mode(last.s).escaped) =>
              last.out.err = "unfinished escaping"
        /\ Mode(last.s).quote # "" =>
              /\ last.out.r # <<>>
              /\ last.out.r[Len(last.out.r)] =
                     TextFrom(last.s, LastSplit(last.s) + 1)
        /\ (\A k \in DOMAIN last.s : last.s[k] = " ") =>
              (last.out.r = <<>> /\ last.out.err = "")
        /\ Flatten(last.out.r) = TextFrom(last.s, 1)
        /\ Len(last.out.r) <= Cardinality(Splits(last.s)) + 1

\* a b"a  with the quote left open: two arguments, the second with the
\* white space that follows the quote
C27_Witness ==
    /\ last.op = "splitQuoted"
    /\ last.s = <<"a", " ", "\"", "a", " ">>
    /\ last.out = [r |-> <<<<"a">>, <<"a", " ">>>>, err |-> "unclosed quote"]

(***************************************************************************)
(* FinishType turn by turn.  last.loop says that FinishType is running;    *)
(* last.enq is every pointee appended to c.ptrKeys so far, in order, and   *)
(* last.grown whether a turn of FinishType appended one.                   *)
(***************************************************************************)
FinRoots == {"pS", "pS2", "pB2", "pU", "pint", "S"}

\* what was appended to ptrKeys, kept the old keys from the from-th on
Appended(old, new, from) == SubSeq(new, Len(old) - from + 2, Len(new))

\* c.Type(dtype, pos) outside FinishType
TypeStep(d) ==
    /\ pc = "finish"
    /\ steps < MaxCalls
    /\ conv.fatal = ""
    /\ ~last.loop
    /\ \E s1 \in {TypeConv(conv, d)} :
         /\ conv' = s1
         /\ last' = [last EXCEPT
                       !.op = "Type",
                       !.enq = @ \o Appended(conv.ptrKeys, s1.ptrKeys, 1)]
    /\ steps' = steps + 1
    /\ UNCHANGED <<pc, pipeVars, dw, godefs>>

\* the call of FinishType
FinishTypeEnter ==
    /\ pc = "finish"
    /\ steps < MaxCalls
    /\ conv.fatal = ""
    /\ ~last.loop
    /\ last' = [last EXCEPT !.op = "FinishType", !.loop = TRUE]
    /\ steps' = steps + 1
    /\ UNCHANGED <<pc, pipeVars, conv, dw, godefs>>

\* for len(c.ptrKeys) > 0 { ... }: one turn
FinishTypeTurn ==
    /\ pc = "finish"
    /\ last.loop
    /\ conv.fatal = ""
    /\ conv.ptrKeys # <<>>
    /\ \E s1 \in {FinishTurn(conv)} :
         /\ conv' = s1
         /\ \E new \in {Appended(conv.ptrKeys, s1.ptrKeys, 2)} :
              last' = [last EXCEPT !.op = "turn", !.enq = @ \o new,
                                   !.grown = @ \/ new # <<>>]
    /\ UNCHANGED <<pc, pipeVars, dw, godefs, steps>>

\* len(c.ptrKeys) == 0: FinishType returns
FinishTypeReturn ==
    /\ pc = "finish"
    /\ last.loop
    /\ conv.fatal = ""
    /\ conv.ptrKeys = <<>>
    /\ last' = [last EXCEPT !.op = "returned", !.loop = FALSE]
    /\ UNCHANGED <<pc, pipeVars, conv, dw, godefs, steps>>

InitFinish ==
    /\ pc = "finish"
    /\ Idle
    /\ conv = NewConv
    /\ dw = Universe
    /\ godefs = FALSE
    /\ last = [op |-> "none", loop |-> FALSE, enq |-> <<>>, grown |-> FALSE]
    /\ steps = 0

NextFinish ==
    \/ \E d \in FinRoots : TypeStep(d)
    \/ FinishTypeEnter
    \/ FinishTypeTurn
    \/ FinishTypeReturn

\* the loop's condition holds while FinishType runs: FinishTypeTurn can be
\* taken, and taking it takes the head off c.ptrKeys
TurnReady ==
    pc = "finish" /\ last.loop /\ conv.fatal = "" /\ conv.ptrKeys # <<>>

\* WF_vars(FinishTypeTurn), with TurnReady for ENABLED <<FinishTypeTurn>>_vars
FairTurn == []<>(~TurnReady) \/ []<><<FinishTypeTurn>>_vars

\* FinishType is straight-line code in one goroutine: a turn that can be
\* taken is taken, and so is the return
SpecFinish ==
    /\ InitFinish
    /\ [][NextFinish]_vars
    /\ FairTurn
    /\ WF_vars(FinishTypeReturn)

\* C28: FinishType, once called, returns (or the translation is fatal);
\* when it has returned c.ptrKeys is empty; no pointee is appended to
\* c.ptrKeys twice in the life of the typeConv.
C28_FinishTypeTerminates ==
    /\ [](last.op = "returned" => conv.ptrKeys = <<>>)
    /\ [](\A i, j \in DOMAIN last.enq : last.enq[i] = last.enq[j] => i = j)
    /\ (last.loop ~> (~last.loop \/ conv.fatal # ""))

\* FinishType returned after a turn that appended a pointee, and a later
\* pointer to a pointee already done was translated without appending it
C28_Witness ==
    /\ last.op = "Type"
    /\ last.grown
    /\ conv.ptrKeys = <<>>
    /\ last.enq = <<"B", "A">>
    /\ "pB2" \in DOMAIN conv.m /\ "pB" \in DOMAIN conv.m
    /\ Len(conv.ptrs["B"]) > 0

\* C29: in a struct that Struct translated without a fatal error every
\* emitted field of the struct starts at its declared byte offset: the
\* sizes of the fields emitted before it add up to that offset.
C29_FieldsAtDeclaredOffsets ==
    (last.op = "Struct" /\ last.fatal = "") =>
        \A k \in DOMAIN last.src :
            last.src[k][1] = "field" =>
                Sum(SubSeq(last.sizes, 1, k - 1))
                    = dw["X"].fields[last.src[k][2]].off

(***************************************************************************)
(* rewriteCalls on a file whose names loadDWARF has loaded: functions, a   *)
(* function named malloc, a type.                                          *)
(***************************************************************************)
FileRoots == {"f_int", "f_pvoid", "f_pSP", "f_2", "malloc"}

\* the Refs of name k in a call context
CallRefsOf(k) == {r \in RefsOf(k) : r.ctx \in {"call", "call2"}}

\* rewriteCalls on a file of one Ref in a call context per loaded name or
\* fewer, in any order
rewriteCallsFile ==
    /\ pc = "call"
    /\ conv.fatal = ""
    /\ DOMAIN Name # {}
    /\ \E n \in 1..Cardinality(DOMAIN Name) :
         \E refs \in [1..n -> UNION {CallRefsOf(k) : k \in DOMAIN Name}] :
           /\ \E r \in {CallsLoop([Calls |-> CallsOf(refs), Ref |-> refs,
                                   needsUnsafe |-> FALSE, panic |-> FALSE], 1)} :
                /\ Calls' = r.Calls
                /\ Ref' = r.Ref
                /\ needsUnsafe' = r.needsUnsafe
                /\ fatal' = IF r.panic THEN "panic: nil pointer dereference"
                            ELSE fatal
                /\ pc' = IF r.panic THEN "fatal" ELSE "rewriteRef"
           /\ last' = [op |-> "rewriteCalls", Calls |-> CallsOf(refs),
                       Ref |-> refs]
    /\ UNCHANGED <<Name, names, needType, sniff, completed, sawUnmatchedErrors,
                   reported, conv, dw, godefs, steps, gcc>>

NextFile ==
    \/ \E d \in FileRoots : LoadFunc(d)
    \/ \E d \in TypeRoots : LoadType(d)
    \/ rewriteCallsFile

SpecFile == InitCall /\ [][NextFile]_vars

\* the call is one the rewriting must leave alone: too few arguments for the
\* function's parameters, a call of C.malloc, a name that is not a function
LeftAlone(call) ==
    \/ call.name = "malloc"
    \/ Name[call.name].Kind # "func"
    \/ Len(call.args) < Len(Name[call.name].FuncType[1].Params)

\* C30: rewriteCalls leaves a call with fewer arguments than the function
\* has parameters as it was, whatever the parameter types, and so a call of
\* C.malloc and a call of a name whose Kind is not func; the Ref of such a
\* call stays as it was and the call does not make the file need unsafe.
C30_CallsLeftAlone ==
    last.op = "rewriteCalls" =>
      /\ Len(Calls) = Len(last.Calls) /\ Len(Ref) = Len(last.Ref)
      /\ \A i \in DOMAIN last.Calls :
           LeftAlone(last.Calls[i]) =>
              /\ Calls[i] = last.Calls[i]
              /\ Ref[last.Calls[i].ref] = last.Ref[last.Calls[i].ref]
      /\ (\A i \in DOMAIN last.Calls : LeftAlone(last.Calls[i])) =>
              /\ ~needsUnsafe
              /\ Ref = last.Ref
              /\ pc = "rewriteRef"

\* a call of C.malloc on a pointer and a call short of an argument for
\* pointer parameters went through rewriteCalls as they were
C30_Witness ==
    /\ last.op = "rewriteCalls"
    /\ Len(last.Calls) = 2
    /\ last.Calls[1].name = "malloc" /\ last.Calls[1].args = <<Var("v")>>
    /\ last.Calls[2].name = "f_2" /\ last.Calls[2].args = <<Var("v")>>
    /\ Calls = last.Calls
    /\ Ref = last.Ref
    /\ ~needsUnsafe

\* a conversion to a type went through rewriteCalls as it was, next to a
\* call that was rewritten
C30_WitnessConversion ==
    /\ last.op = "rewriteCalls"
    /\ Len(last.Calls) = 2
    /\ last.Calls[1].name = "S" /\ last.Calls[1].args = <<Var("v")>>
    /\ Calls[1] = last.Calls[1]
    /\ last.Calls[2].name = "f_pvoid" /\ last.Calls[2].args = <<Var("v")>>
    /\ Calls[2].fun.k = "funclit"
    /\ Ref[2].inLit /\ ~Ref[1].inLit
====
